---- MODULE Spec2Model ----
(***************************************************************************)
(* A model of the content rendering engine of x2md: the Draft.js block     *)
(* renderer (DraftJSToMarkdown, renderAtomicBlock, buildMediaLookup,       *)
(* applyInlineStyles) and the entity-map key decoder (FlexInt).            *)
(*                                                                         *)
(* A Go string is a sequence of one-character strings; a strings.Builder   *)
(* is the sequence of the writes made to it, each write carrying the       *)
(* string written and, as history, what caused it.                         *)
(***************************************************************************)
EXTENDS Integers, Sequences, FiniteSets, TLC

VARIABLES
    pc,        \* which function is running and where: "call" before, "done" after
    text,      \* applyInlineStyles: the text argument
    styles,    \* applyInlineStyles: the styles argument, a list of InlineStyleRange
    result,    \* applyInlineStyles: the writes made to the strings.Builder
    blocks,         \* DraftJSToMarkdown: the blocks of content.Blocks read so far
    entityMap,      \* DraftJSToMarkdown: content.EntityMap, a list of EntityMapItem
    mediaEntities,  \* DraftJSToMarkdown, buildMediaLookup: the list of ArticleMedia
    entityLookup,   \* the map from entity key to EntityValue
    mediaLookup,    \* the map from media id to image URL
    parts,          \* DraftJSToMarkdown: the parts, each with the index of its block
    olCounter,      \* DraftJSToMarkdown: the ordered-list counter
    out,            \* DraftJSToMarkdown: the string returned
    atomicBlock,    \* renderAtomicBlock: the block argument
    rendered,       \* renderAtomicBlock: the string returned
    idx,            \* buildMediaLookup: the number of entities the loop has read
    data,           \* FlexInt.UnmarshalJSON: the bytes to decode
    f,              \* FlexInt.UnmarshalJSON: the receiver *f
    fBefore,        \* history: the receiver at the call
    err,            \* FlexInt.UnmarshalJSON: the error returned, "nil" for none
    htmlDoc,        \* history: the elements that htmlStr is the concatenation of
    htmlStr,        \* HTMLToMarkdown: the htmlStr argument
    md,             \* HTMLToMarkdown: the local s, the text after the passes made
    api,            \* what the FxTwitter API answers for each tweet id
    screenName,     \* FetchThread: the screenName argument
    tweetID,        \* FetchThread: the id argument
    chain,          \* FetchThread: the tweets fetched, then the slice returned
    currentScreenName,  \* FetchThread: the screen name of the next fetch
    currentID,      \* FetchThread: the id of the next fetch
    depth,          \* FetchThread: the loop variable i
    fetched,        \* history: the id and the outcome of each call of FetchTweet
    threadErr,      \* FetchThread: the error returned, "nil" for none
    fields,         \* writeFrontmatter: the fields argument
    sb,             \* writeFrontmatter: the writes made to the strings.Builder
    fieldIdx        \* writeFrontmatter: the number of fields the loop has read

vars == <<pc, text, styles, result, blocks, entityMap, mediaEntities, entityLookup,
          mediaLookup, parts, olCounter, out, atomicBlock, rendered, idx,
          data, f, fBefore, err, htmlDoc, htmlStr, md, api, screenName, tweetID, chain,
          currentScreenName, currentID, depth, fetched, threadErr, fields, sb, fieldIdx>>

stylesVars == <<text, styles, result>>
draftVars == <<blocks, entityMap, parts, olCounter, out>>
lookupVars == <<mediaEntities, entityLookup, mediaLookup>>
atomicVars == <<atomicBlock, rendered>>
mediaVars == <<idx>>
flexVars == <<data, f, fBefore, err>>
htmlVars == <<htmlDoc, htmlStr, md>>
threadVars == <<api, screenName, tweetID, chain, currentScreenName, currentID, depth,
                fetched, threadErr>>
frontVars == <<fields, sb, fieldIdx>>
restVars == <<htmlVars, threadVars, frontVars>>

\* ------------------------------------------------------------------ bounds

\* The longest text, in code points.
MaxLen == 2
\* The longest list of inline style ranges of one block.
MaxRanges == 2
\* The longest list of blocks of one document.
MaxBlocks == 3
\* The longest list of entity ranges of one atomic block.
MaxEntityRanges == 3
\* The longest list of media entities.
MaxMedia == 3
\* The longest byte sequence handed to FlexInt.UnmarshalJSON, literals apart.
MaxDataLen == 4

\* ----------------------------------------------------------------- strings

Alphabet == <<"a", "b", "c", "d", "e">>

\* The text of n distinct code points "abc...".
TextOfLen(n) == [i \in 1..n |-> Alphabet[((i - 1) % Len(Alphabet)) + 1]]

\* The character U+0060, the Markdown code delimiter.
Backquote == "BQ"

RECURSIVE Concat(_)
\* The concatenation of a sequence of strings.
Concat(ss) == IF ss = <<>> THEN <<>> ELSE Head(ss) \o Concat(Tail(ss))

\* ------------------------------------------------------- applyInlineStyles

styleMarker(style) ==
    CASE style \in {"Bold", "BOLD"} -> <<"*", "*">>
      [] style \in {"Italic", "ITALIC"} -> <<"*">>
      [] style \in {"Code", "CODE"} -> <<Backquote>>
      [] OTHER -> <<>>

\* The end of a range as the loop over styles computes it: only the end is clamped.
clampEnd(s, n) == IF s.Offset + s.Length > n THEN n ELSE s.Offset + s.Length

RECURSIVE collectEvents(_, _, _)
\* The events of styles[k..], two per range, in the order of the list. The field
\* src is history: the index in styles of the range the event comes from.
collectEvents(styleList, n, k) ==
    IF k > Len(styleList) THEN <<>>
    ELSE LET s == styleList[k] IN
         << [pos |-> s.Offset, style |-> s.Style, start |-> TRUE, src |-> k],
            [pos |-> clampEnd(s, n), style |-> s.Style, start |-> FALSE, src |-> k] >>
         \o collectEvents(styleList, n, k + 1)

\* Bug variant of eventLess: at one position, starts sort before ends.
eventLessStartsFirst(a, b) ==
    IF a.pos # b.pos THEN a.pos < b.pos
    ELSE IF a.start # b.start THEN a.start
    ELSE FALSE

\* The less function handed to sort.Slice.
eventLess(a, b) ==
    IF a.pos # b.pos THEN a.pos < b.pos
    ELSE IF a.start # b.start THEN ~a.start
    ELSE FALSE

\* sort.Slice sorts a slice of at most 12 elements by insertion sort.
maxInsertion == 12

RECURSIVE insertDown(_, _)
\* The inner loop of insertion sort: the element at j moves down while it is
\* less than its predecessor.
insertDown(ev, j) ==
    IF j > 1 /\ eventLess(ev[j], ev[j - 1])
    THEN insertDown([ev EXCEPT ![j] = ev[j - 1], ![j - 1] = ev[j]], j - 1)
    ELSE ev

RECURSIVE insertionSort(_, _)
insertionSort(ev, i) ==
    IF i > Len(ev) THEN ev ELSE insertionSort(insertDown(ev, i), i + 1)

RECURSIVE sortedOrders(_, _)
\* Every order of the events with indices in S that is sorted by eventLess.
sortedOrders(ev, S) ==
    IF S = {} THEN {<<>>}
    ELSE UNION {{<<ev[i]>> \o rest : rest \in sortedOrders(ev, S \ {i})} :
                i \in {m \in S : \A j \in S : ~eventLess(ev[j], ev[m])}}

\* The outcomes of sort.Slice: insertion sort up to 12 elements; beyond that the
\* sort is not stable, and any order sorted by eventLess is an outcome.
sortSlice(ev) ==
    IF Len(ev) <= maxInsertion THEN {insertionSort(ev, 2)}
    ELSE sortedOrders(ev, 1..Len(ev))

RECURSIVE writeEvents(_, _, _, _)
\* The inner loop of the sweep: the markers of the events at pos, from eventIdx
\* (0-based) on. Yields the new eventIdx and the writes.
writeEvents(ev, pos, eventIdx, acc) ==
    IF eventIdx < Len(ev) /\ ev[eventIdx + 1].pos = pos
    THEN writeEvents(ev, pos, eventIdx + 1,
                     Append(acc, [kind |-> "marker",
                                  str |-> styleMarker(ev[eventIdx + 1].style),
                                  ev |-> ev[eventIdx + 1]]))
    ELSE [eventIdx |-> eventIdx, acc |-> acc]

\* Bug variant of writeRune: the last code point is not written.
writeRuneDropsLast(runes, pos, acc) ==
    IF pos < Len(runes) - 1
    THEN Append(acc, [kind |-> "rune", str |-> <<runes[pos + 1]>>, at |-> pos])
    ELSE acc

\* if pos < n { result.WriteRune(runes[pos]) }
writeRune(runes, pos, acc) ==
    IF pos < Len(runes)
    THEN Append(acc, [kind |-> "rune", str |-> <<runes[pos + 1]>>, at |-> pos])
    ELSE acc

\* Bug variant of sweepContinues: the sweep stops before position n.
sweepStopsBeforeEnd(runes, pos) == pos < Len(runes)

\* The condition of the outer loop of the sweep: pos <= n.
sweepContinues(runes, pos) == pos <= Len(runes)

RECURSIVE sweep(_, _, _, _, _)
\* The outer loop of the sweep, for pos := pos; pos <= n; pos++.
sweep(runes, ev, pos, eventIdx, acc) ==
    IF ~sweepContinues(runes, pos) THEN acc
    ELSE LET w == writeEvents(ev, pos, eventIdx, acc) IN
         sweep(runes, ev, pos + 1, w.eventIdx, writeRune(runes, pos, w.acc))

\* The writes applyInlineStyles can make (one outcome per outcome of the sort).
applyInlineStyles(txt, styleList) ==
    IF Len(styleList) = 0 THEN {<<[kind |-> "text", str |-> txt]>>}
    ELSE {sweep(txt, ev, 0, 0, <<>>) :
          ev \in sortSlice(collectEvents(styleList, Len(txt), 1))}

\* result.String()
String(writes) == Concat([i \in 1..Len(writes) |-> writes[i].str])

\* ------------------------------------------------ strings: the Go library

\* unicode.IsSpace, on the characters tried.
IsSpace(c) == c \in {" ", "\t", "\n", "\r", "\f"}

RECURSIVE TrimLeft(_)
TrimLeft(str) ==
    IF str # <<>> /\ IsSpace(Head(str)) THEN TrimLeft(Tail(str)) ELSE str

RECURSIVE TrimRight(_)
TrimRight(str) ==
    IF str # <<>> /\ IsSpace(str[Len(str)])
    THEN TrimRight(SubSeq(str, 1, Len(str) - 1)) ELSE str

\* strings.TrimSpace
TrimSpace(str) == TrimRight(TrimLeft(str))

RECURSIVE Join(_, _)
\* strings.Join
Join(ss, sep) ==
    IF ss = <<>> THEN <<>>
    ELSE IF Len(ss) = 1 THEN ss[1]
    ELSE ss[1] \o sep \o Join(Tail(ss), sep)

RECURSIVE SplitFrom(_, _, _)
\* The lines of str after the line cur, which is being read.
SplitFrom(str, sep, cur) ==
    IF str = <<>> THEN <<cur>>
    ELSE IF Head(str) = sep THEN <<cur>> \o SplitFrom(Tail(str), sep, <<>>)
    ELSE SplitFrom(Tail(str), sep, Append(cur, Head(str)))

\* strings.Split on a separator of one character
Split(str, sep) == SplitFrom(str, sep, <<>>)

Digits == <<"0", "1", "2", "3", "4", "5", "6", "7", "8", "9">>

IsDigit(c) == \E d \in 1..10 : Digits[d] = c

DigitValue(c) == (CHOOSE d \in 1..10 : Digits[d] = c) - 1

RECURSIVE ReadNat(_, _)
\* The number that the leading decimal digits of str spell, after acc.
ReadNat(str, acc) ==
    IF str # <<>> /\ IsDigit(Head(str))
    THEN ReadNat(Tail(str), 10 * acc + DigitValue(Head(str)))
    ELSE acc

RECURSIVE Itoa(_)
\* The verb %d of fmt.Sprintf, for n >= 0.
Itoa(n) == IF n < 10 THEN <<Digits[n + 1]>> ELSE Itoa(n \div 10) \o <<Digits[(n % 10) + 1]>>

\* A Go map, as a function: m[k] = v
MapPut(m, k, v) == [x \in (DOMAIN m) \cup {k} |-> IF x = k THEN v ELSE m[x]]

\* --------------------------------------------------------- buildMediaLookup

\* e.MediaInfo != nil && e.MediaInfo.OriginalImgURL != "". A pointer is a
\* sequence of no element (nil) or of one.
mediaUsable(e) == e.MediaInfo # <<>> /\ e.MediaInfo[1].OriginalImgURL # <<>>

\* Bug variant of mediaInsert: an id already in the map keeps its URL.
mediaInsertFirstWins(lookup, e) ==
    IF ~mediaUsable(e) \/ e.MediaID \in DOMAIN lookup THEN lookup
    ELSE MapPut(lookup, e.MediaID, e.MediaInfo[1].OriginalImgURL)

\* One iteration of the loop of buildMediaLookup.
mediaInsert(lookup, e) ==
    IF mediaUsable(e) THEN MapPut(lookup, e.MediaID, e.MediaInfo[1].OriginalImgURL)
    ELSE lookup

RECURSIVE buildMediaLookupFrom(_, _, _)
buildMediaLookupFrom(entities, k, lookup) ==
    IF k > Len(entities) THEN lookup
    ELSE buildMediaLookupFrom(entities, k + 1, mediaInsert(lookup, entities[k]))

buildMediaLookup(entities) == buildMediaLookupFrom(entities, 1, <<>>)

\* ----------------------------------------------------- the entity lookup

RECURSIVE buildEntityLookupFrom(_, _, _)
\* for _, item := range content.EntityMap { entityLookup[int(item.Key)] = item.Value }
buildEntityLookupFrom(items, k, lookup) ==
    IF k > Len(items) THEN lookup
    ELSE buildEntityLookupFrom(items, k + 1, MapPut(lookup, items[k].Key, items[k].Value))

buildEntityLookup(items) == buildEntityLookupFrom(items, 1, <<>>)

\* -------------------------------------------------------- renderAtomicBlock

\* fmt.Sprintf("![image](%s)", url)
imageMarkdown(url) == <<"!", "[", "i", "m", "a", "g", "e", "]", "(">> \o url \o <<")">>

RECURSIVE mediaImages(_, _, _)
\* The images of the references refs[k..], those with no match skipped.
mediaImages(refs, k, lookup) ==
    IF k > Len(refs) THEN <<>>
    ELSE (IF refs[k] \in DOMAIN lookup THEN <<imageMarkdown(lookup[refs[k]])>> ELSE <<>>)
         \o mediaImages(refs, k + 1, lookup)

renderMediaEntity(entity, lookup) ==
    Join(mediaImages(entity.MediaItems, 1, lookup), <<"\n", "\n">>)

RECURSIVE renderAtomicFromSkipsEmpty(_, _, _, _)
\* Bug variant of renderAtomicFrom: a MEDIA entity that renders empty does not
\* stop the scan.
renderAtomicFromSkipsEmpty(ranges, k, entities, lookup) ==
    IF k > Len(ranges) THEN <<>>
    ELSE IF ranges[k] \notin DOMAIN entities
         THEN renderAtomicFromSkipsEmpty(ranges, k + 1, entities, lookup)
    ELSE IF /\ entities[ranges[k]].Type = "MEDIA"
            /\ renderMediaEntity(entities[ranges[k]], lookup) # <<>>
         THEN renderMediaEntity(entities[ranges[k]], lookup)
    ELSE IF entities[ranges[k]].Type = "DIVIDER" THEN <<"-", "-", "-">>
    ELSE renderAtomicFromSkipsEmpty(ranges, k + 1, entities, lookup)

RECURSIVE renderAtomicFrom(_, _, _, _)
\* The loop of renderAtomicBlock over the entity ranges ranges[k..], each range
\* being its key: a key not in the map is skipped, MEDIA and DIVIDER return,
\* and an entity of another type leaves the switch and goes on to the next range.
renderAtomicFrom(ranges, k, entities, lookup) ==
    IF k > Len(ranges) THEN <<>>
    ELSE IF ranges[k] \notin DOMAIN entities
         THEN renderAtomicFrom(ranges, k + 1, entities, lookup)
    ELSE IF entities[ranges[k]].Type = "MEDIA"
         THEN renderMediaEntity(entities[ranges[k]], lookup)
    ELSE IF entities[ranges[k]].Type = "DIVIDER" THEN <<"-", "-", "-">>
    ELSE renderAtomicFrom(ranges, k + 1, entities, lookup)

renderAtomicBlock(block, entities, lookup) ==
    renderAtomicFrom(block.EntityRanges, 1, entities, lookup)

\* -------------------------------------------------------- DraftJSToMarkdown

HeaderTypes == {"header-one", "header-two", "header-three", "header-four",
                "header-five", "header-six"}

\* The prefix of a heading: "# " to "###### ".
headerPrefix(type) ==
    CASE type = "header-one" -> <<"#", " ">>
      [] type = "header-two" -> <<"#", "#", " ">>
      [] type = "header-three" -> <<"#", "#", "#", " ">>
      [] type = "header-four" -> <<"#", "#", "#", "#", " ">>
      [] type = "header-five" -> <<"#", "#", "#", "#", "#", " ">>
      [] type = "header-six" -> <<"#", "#", "#", "#", "#", "#", " ">>

\* The strings applyInlineStyles(block.Text, block.InlineStyleRanges) can return.
flattened(block) ==
    {String(w) : w \in applyInlineStyles(block.Text, block.InlineStyleRanges)}

\* The lines of a blockquote, each prefixed "> ".
quoteLines(str) ==
    LET lines == Split(str, "\n") IN
    Join([i \in 1..Len(lines) |-> <<">", " ">> \o lines[i]], <<"\n">>)

Fence == <<Backquote, Backquote, Backquote>>

\* Bug variant of olNext: the counter is never reset, numbering is global.
olNextNeverReset(block, counter) ==
    IF block.Type = "ordered-list-item" THEN counter + 1 ELSE counter

\* The ordered-list counter after a block: olCounter++ in the case of an
\* ordered-list item, olCounter = 0 in every other case.
olNext(block, counter) ==
    IF block.Type = "ordered-list-item" THEN counter + 1 ELSE 0

\* Bug variant of atomicParts: an atomic block that renders empty makes an
\* empty part.
atomicPartsKeepsEmpty(str) == <<str>>

\* if rendered != "" { parts = append(parts, rendered) }
atomicParts(str) == IF str # <<>> THEN <<str>> ELSE <<>>

\* One iteration of the loop over the blocks: the outcomes, each the new
\* counter and the parts appended (none or one).
renderBlock(block, counter, entities, lookup) ==
    LET fragment == IF block.Type = "atomic"
                    THEN renderAtomicBlock(block, entities, lookup) ELSE <<>>
        next == olNext(block, counter)
        one(strs) == {[olCounter |-> next, add |-> <<str>>] : str \in strs}
    IN CASE block.Type \in HeaderTypes ->
               one({headerPrefix(block.Type) \o t : t \in flattened(block)})
         [] block.Type = "blockquote" ->
               one({quoteLines(t) : t \in flattened(block)})
         [] block.Type = "unordered-list-item" ->
               one({<<"-", " ">> \o t : t \in flattened(block)})
         [] block.Type = "ordered-list-item" ->
               one({Itoa(next) \o <<".", " ">> \o t : t \in flattened(block)})
         [] block.Type = "code-block" ->
               one({Fence \o <<"\n">> \o block.Text \o <<"\n">> \o Fence})
         [] block.Type = "atomic" ->
               {[olCounter |-> next, add |-> atomicParts(fragment)]}
         [] OTHER ->
               IF TrimSpace(block.Text) = <<>> THEN one({<<>>})
               ELSE one(flattened(block))

\* return strings.TrimSpace(strings.Join(parts, "\n\n")), and "" for no block.
draftReturn(blockList, partList) ==
    IF Len(blockList) = 0 THEN <<>>
    ELSE TrimSpace(Join([i \in 1..Len(partList) |-> partList[i].str], <<"\n", "\n">>))

RECURSIVE draftParts(_, _, _, _, _, _)
\* The part lists the loop can build from the blocks blockList[k..].
draftParts(blockList, k, counter, acc, entities, lookup) ==
    IF k > Len(blockList) THEN {acc}
    ELSE UNION {draftParts(blockList, k + 1, r.olCounter,
                           acc \o [i \in 1..Len(r.add) |-> [str |-> r.add[i], block |-> k]],
                           entities, lookup) :
                r \in renderBlock(blockList[k], counter, entities, lookup)}

\* The strings DraftJSToMarkdown can return.
DraftJSToMarkdown(blockList, items, media) ==
    {draftReturn(blockList, ps) :
        ps \in draftParts(blockList, 1, 0, <<>>, buildEntityLookup(items),
                          buildMediaLookup(media))}

\* ------------------------------------------------ FlexInt.UnmarshalJSON

Quote == "\""

\* The JSON literal null.
JSONNull == <<"n", "u", "l", "l">>

\* The input of json.Unmarshal without the white space around the value.
jsonTrim(bytes) == TrimSpace(bytes)

AllDigits(str) == str # <<>> /\ \A i \in 1..Len(str) : IsDigit(str[i])

\* A JSON number with neither fraction nor exponent: -?(0|[1-9][0-9]*).
jsonIntLiteral(tok) ==
    LET body == IF tok # <<>> /\ Head(tok) = "-" THEN Tail(tok) ELSE tok IN
    AllDigits(body) /\ (Len(body) = 1 \/ Head(body) # "0")

\* A JSON number with a fraction (no exponent is among the inputs tried).
jsonFractionLiteral(tok) ==
    \E i \in 1..Len(tok) :
        /\ tok[i] = "."
        /\ jsonIntLiteral(SubSeq(tok, 1, i - 1))
        /\ AllDigits(SubSeq(tok, i + 1, Len(tok)))

\* A JSON string (no escape sequence is among the inputs tried).
jsonStringLiteral(tok) ==
    /\ Len(tok) >= 2 /\ tok[1] = Quote /\ tok[Len(tok)] = Quote
    /\ \A i \in 2..(Len(tok) - 1) : tok[i] \notin {Quote, "\\", "\n", "\t", "\r", "\f"}

\* The JSON values tried that are neither number, string nor null.
jsonOtherValue(tok) ==
    tok \in { <<"t", "r", "u", "e">>, <<"f", "a", "l", "s", "e">>, <<"[", "]">>,
              <<"[", "1", "]">>, <<"{", "}">> }

\* The value of an optional sign and digits.
signedValue(str) ==
    IF Head(str) = "-" THEN 0 - ReadNat(Tail(str), 0)
    ELSE IF Head(str) = "+" THEN ReadNat(Tail(str), 0)
    ELSE ReadNat(str, 0)

\* json.Unmarshal(data, &intVal), intVal being 0 before: null is no error and
\* leaves intVal as it is; a number without fraction is stored; everything
\* else (a fraction, a string, another value, a syntax error) is an error.
unmarshalInt(bytes) ==
    LET tok == jsonTrim(bytes) IN
    IF tok = JSONNull THEN [err |-> FALSE, val |-> 0]
    ELSE IF jsonIntLiteral(tok) THEN [err |-> FALSE, val |-> signedValue(tok)]
    ELSE [err |-> TRUE, val |-> 0]

\* json.Unmarshal(data, &strVal), strVal being "" before.
unmarshalString(bytes) ==
    LET tok == jsonTrim(bytes) IN
    IF tok = JSONNull THEN [err |-> FALSE, val |-> <<>>]
    ELSE IF jsonStringLiteral(tok)
         THEN [err |-> FALSE, val |-> SubSeq(tok, 2, Len(tok) - 1)]
    ELSE [err |-> TRUE, val |-> <<>>]

\* strconv.Atoi: an optional sign and one digit or more (no input tried
\* leaves the range of int).
Atoi(str) ==
    LET body == IF str # <<>> /\ Head(str) \in {"+", "-"} THEN Tail(str) ELSE str IN
    IF AllDigits(body) THEN [err |-> FALSE, val |-> signedValue(str)]
    ELSE [err |-> TRUE, val |-> 0]

\* FlexInt.UnmarshalJSON on the receiver value recv: the new receiver and the error.
UnmarshalJSON(recv, bytes) ==
    LET asInt == unmarshalInt(bytes)
        asStr == unmarshalString(bytes)
    IN IF ~asInt.err THEN [f |-> asInt.val, err |-> "nil"]
       ELSE IF ~asStr.err
            THEN IF Atoi(asStr.val).err
                 THEN [f |-> recv, err |-> "FlexInt: cannot parse as int"]
                 ELSE [f |-> Atoi(asStr.val).val, err |-> "nil"]
       ELSE [f |-> recv, err |-> "FlexInt: cannot unmarshal"]

\* ------------------------------------------------------------------ inputs

StyleNames == {"Bold", "ITALIC", "Underline"}

\* The ranges tried on a text of n code points: in and out of bounds.
RangesFor(n) == [Offset : (-1)..(n + 1), Length : 0..(n + 1), Style : StyleNames]

StyleLists(n) == UNION {[1..k -> RangesFor(n)] : k \in 0..MaxRanges}

\* The blocks tried: every block type, with and without inline styles, blank
\* paragraphs, a quote of two lines, and atomic blocks whose keys resolve or not.
PlainBlock(type, txt) ==
    [Type |-> type, Text |-> txt, InlineStyleRanges |-> <<>>, EntityRanges |-> <<>>]

BoldBlock(type, txt) ==
    [Type |-> type, Text |-> txt,
     InlineStyleRanges |-> <<[Offset |-> 0, Length |-> Len(txt), Style |-> "Bold"]>>,
     EntityRanges |-> <<>>]

AtomicBlockOf(keys) ==
    [Type |-> "atomic", Text |-> <<" ">>, InlineStyleRanges |-> <<>>,
     EntityRanges |-> keys]

\* A key no entity map tried holds.
MissingKey == 9

BlocksTried ==
    {PlainBlock(t, <<"a">>) : t \in HeaderTypes \cup {"unordered-list-item",
         "ordered-list-item", "code-block", "unstyled", "pullquote"}}
    \cup {BoldBlock("ordered-list-item", <<"b">>), BoldBlock("unstyled", <<"b">>),
          PlainBlock("unstyled", <<>>),
          PlainBlock("blockquote", <<"a", "\n", "b">>)}
    \cup {AtomicBlockOf(<<MissingKey>>), AtomicBlockOf(<<MissingKey, 0>>),
          AtomicBlockOf(<<1>>)}

Entity(type, refs) == [Type |-> type, MediaItems |-> refs]

URL1 == <<"u", "1">>
URL2 == <<"u", "2">>

Media(id, url) == [MediaID |-> id, MediaInfo |-> <<[OriginalImgURL |-> url]>>]

\* The documents tried: the entity map with the media entities.
DocumentsTried ==
    { [entityMap |-> <<>>, mediaEntities |-> <<>>],
      [entityMap |-> << [Key |-> 0, Value |-> Entity("DIVIDER", <<>>)],
                        [Key |-> 1, Value |-> Entity("MEDIA", <<"m1", "m2", "m3">>)] >>,
       mediaEntities |-> <<Media("m1", URL1), Media("m3", URL2)>>] }

\* The entity keys tried by renderAtomicBlock.
KeysTried == 0..2

\* The entities tried: a MEDIA entity with one matching reference of two, one
\* with no matching reference, a DIVIDER, a LINK, and an entity
\* of unknown type.
EntitiesTried ==
    {Entity("MEDIA", <<"m2", "m1">>), Entity("MEDIA", <<"m2">>),
     Entity("DIVIDER", <<>>), Entity("LINK", <<>>), Entity("TWEET", <<>>)}

\* The entity lookups tried: every map from some of the keys to the entities.
EntityLookupsTried == UNION {[S -> EntitiesTried] : S \in SUBSET KeysTried}

EntityRangesTried == UNION {[1..k -> KeysTried] : k \in 0..MaxEntityRanges}

\* The media entities tried: two ids, without media info, with an empty URL
\* and with two URLs.
MediaTried ==
    {[MediaID |-> id, MediaInfo |-> info] :
        id \in {"m1", "m2"},
        info \in {<<>>} \cup {<<[OriginalImgURL |-> u]>> : u \in {<<>>, URL1, URL2}}}

MediaListsTried == UNION {[1..k -> MediaTried] : k \in 0..MaxMedia}

\* The characters the byte sequences tried are made of.
DataChars == {"0", "1", "-", "+", Quote, "a"}

\* The byte sequences tried as literals: null, other JSON values, fractions,
\* white space in and around values, and text that is no JSON.
LiteralsTried ==
    { JSONNull, <<"t", "r", "u", "e">>, <<"f", "a", "l", "s", "e">>, <<"[", "]">>,
      <<"[", "1", "]">>, <<"{", "}">>, <<"1", ".", "5">>, <<"1", ".", "0">>,
      <<Quote, "1", ".", "5", Quote>>, <<" ", "1">>, <<Quote, " ", "1", Quote>>,
      <<Quote, "n", "u", "l", "l", Quote>>, <<"n", "u", "l">>, <<"[", "1">>,
      <<Quote, "-", "1", "0", "1", Quote>>, <<Quote, "1", "0", "0", "1", Quote>> }

DataTried == UNION {[1..k -> DataChars] : k \in 0..MaxDataLen} \cup LiteralsTried

\* The values of the receiver tried: the zero value and a key decoded before.
ReceiversTried == {0, 7}

\* The variables a specification does not use keep these values.
IdleStyles == text = <<>> /\ styles = <<>> /\ result = <<>>
IdleDraft == blocks = <<>> /\ entityMap = <<>> /\ parts = <<>> /\ olCounter = 0 /\ out = <<>>
IdleLookups == mediaEntities = <<>> /\ entityLookup = <<>> /\ mediaLookup = <<>>
IdleAtomic == atomicBlock = AtomicBlockOf(<<>>) /\ rendered = <<>>
IdleMedia == idx = 0
IdleFlex == data = <<>> /\ f = 0 /\ fBefore = 0 /\ err = "nil"
IdleHtml == htmlDoc = <<>> /\ htmlStr = <<>> /\ md = <<>>
IdleThread ==
    /\ api = <<>> /\ screenName = <<>> /\ tweetID = <<>> /\ chain = <<>>
    /\ currentScreenName = <<>> /\ currentID = <<>> /\ depth = 0
    /\ fetched = <<>> /\ threadErr = "nil"
IdleFront == fields = <<>> /\ sb = <<>> /\ fieldIdx = 0
\* The specifications of the block renderer leave these alone.
IdleRest == IdleHtml /\ IdleThread /\ IdleFront

\* ------------------------------------------------- specification: SpecStyles

InitStyles ==
    /\ pc = "call"
    /\ \E n \in 0..MaxLen :
          /\ text = TextOfLen(n)
          /\ styles \in StyleLists(n)
    /\ result = <<>>
    /\ IdleDraft /\ IdleLookups /\ IdleAtomic /\ IdleMedia /\ IdleFlex /\ IdleRest

ApplyInlineStyles ==
    /\ pc = "call"
    /\ result' \in applyInlineStyles(text, styles)
    /\ pc' = "done"
    /\ UNCHANGED <<text, styles>>
    /\ UNCHANGED <<draftVars, lookupVars, atomicVars, mediaVars, flexVars, restVars>>

NextStyles == ApplyInlineStyles

SpecStyles == InitStyles /\ [][NextStyles]_vars

\* -------------------------------------------------- specification: SpecDraft

InitDraft ==
    /\ pc = "start"
    /\ \E d \in DocumentsTried :
          /\ entityMap = d.entityMap
          /\ mediaEntities = d.mediaEntities
    /\ blocks = <<>> /\ parts = <<>> /\ olCounter = 0 /\ out = <<>>
    /\ entityLookup = <<>> /\ mediaLookup = <<>>
    /\ IdleStyles /\ IdleAtomic /\ IdleMedia /\ IdleFlex /\ IdleRest

\* The two lookups are built before the loop.
BuildLookups ==
    /\ pc = "start"
    /\ mediaLookup' = buildMediaLookup(mediaEntities)
    /\ entityLookup' = buildEntityLookup(entityMap)
    /\ pc' = "loop"
    /\ UNCHANGED <<blocks, entityMap, mediaEntities, parts, olCounter, out>>
    /\ UNCHANGED <<stylesVars, atomicVars, mediaVars, flexVars, restVars>>

\* One iteration of the loop, on a next block whose type is in types.
RenderNext(types) ==
    /\ pc = "loop"
    /\ Len(blocks) < MaxBlocks
    /\ \E block \in {b \in BlocksTried : b.Type \in types} :
          \E r \in renderBlock(block, olCounter, entityLookup, mediaLookup) :
              /\ blocks' = Append(blocks, block)
              /\ olCounter' = r.olCounter
              /\ parts' = parts \o [i \in 1..Len(r.add) |->
                                      [str |-> r.add[i], block |-> Len(blocks) + 1]]
    /\ UNCHANGED <<pc, entityMap, out>>
    /\ UNCHANGED <<lookupVars, stylesVars, atomicVars, mediaVars, flexVars, restVars>>

SwitchTypes == HeaderTypes \cup {"blockquote", "unordered-list-item",
                                 "ordered-list-item", "code-block", "atomic"}

HeaderBlock == RenderNext(HeaderTypes)
BlockquoteBlock == RenderNext({"blockquote"})
UnorderedListItemBlock == RenderNext({"unordered-list-item"})
OrderedListItemBlock == RenderNext({"ordered-list-item"})
CodeBlock == RenderNext({"code-block"})
AtomicBlock == RenderNext({"atomic"})
DefaultBlock == RenderNext({b.Type : b \in BlocksTried} \ SwitchTypes)

\* The list of blocks ends here: the parts are joined and returned.
ReturnDraft ==
    /\ pc = "loop"
    /\ out' = draftReturn(blocks, parts)
    /\ pc' = "done"
    /\ UNCHANGED <<blocks, entityMap, parts, olCounter>>
    /\ UNCHANGED <<lookupVars, stylesVars, atomicVars, mediaVars, flexVars, restVars>>

NextDraft ==
    \/ BuildLookups
    \/ HeaderBlock
    \/ BlockquoteBlock
    \/ UnorderedListItemBlock
    \/ OrderedListItemBlock
    \/ CodeBlock
    \/ AtomicBlock
    \/ DefaultBlock
    \/ ReturnDraft

SpecDraft == InitDraft /\ [][NextDraft]_vars

\* ------------------------------------------------- specification: SpecAtomic

InitAtomic ==
    /\ pc = "call"
    /\ \E ranges \in EntityRangesTried : atomicBlock = AtomicBlockOf(ranges)
    /\ entityLookup \in EntityLookupsTried
    /\ mediaLookup = MapPut(<<>>, "m1", URL1)
    /\ mediaEntities = <<>>
    /\ rendered = <<>>
    /\ IdleStyles /\ IdleDraft /\ IdleMedia /\ IdleFlex /\ IdleRest

RenderAtomicBlock ==
    /\ pc = "call"
    /\ rendered' = renderAtomicBlock(atomicBlock, entityLookup, mediaLookup)
    /\ pc' = "done"
    /\ UNCHANGED <<atomicBlock, lookupVars, stylesVars, draftVars, mediaVars, flexVars, restVars>>

NextAtomic == RenderAtomicBlock

SpecAtomic == InitAtomic /\ [][NextAtomic]_vars

\* -------------------------------------------------- specification: SpecMedia

InitMedia ==
    /\ pc = "loop"
    /\ mediaEntities \in MediaListsTried
    /\ mediaLookup = <<>>
    /\ idx = 0
    /\ entityLookup = <<>>
    /\ IdleStyles /\ IdleDraft /\ IdleAtomic /\ IdleFlex /\ IdleRest

\* An iteration of the loop of buildMediaLookup on an entity with an image URL.
MediaInsert ==
    /\ pc = "loop" /\ idx < Len(mediaEntities)
    /\ mediaUsable(mediaEntities[idx + 1])
    /\ mediaLookup' = mediaInsert(mediaLookup, mediaEntities[idx + 1])
    /\ idx' = idx + 1
    /\ UNCHANGED <<pc, mediaEntities, entityLookup, stylesVars, draftVars, atomicVars,
                   flexVars, restVars>>

\* An iteration of the loop on an entity without media info or with an empty URL.
MediaSkip ==
    /\ pc = "loop" /\ idx < Len(mediaEntities)
    /\ ~mediaUsable(mediaEntities[idx + 1])
    /\ mediaLookup' = mediaInsert(mediaLookup, mediaEntities[idx + 1])
    /\ idx' = idx + 1
    /\ UNCHANGED <<pc, mediaEntities, entityLookup, stylesVars, draftVars, atomicVars,
                   flexVars, restVars>>

ReturnLookup ==
    /\ pc = "loop" /\ idx = Len(mediaEntities)
    /\ pc' = "done"
    /\ UNCHANGED <<idx, lookupVars, stylesVars, draftVars, atomicVars, flexVars, restVars>>

NextMedia == MediaInsert \/ MediaSkip \/ ReturnLookup

SpecMedia == InitMedia /\ [][NextMedia]_vars

\* --------------------------------------------------- specification: SpecFlex

InitFlex ==
    /\ pc = "call"
    /\ data \in DataTried
    /\ f \in ReceiversTried
    /\ fBefore = f
    /\ err = "nil"
    /\ IdleStyles /\ IdleDraft /\ IdleLookups /\ IdleAtomic /\ IdleMedia /\ IdleRest

\* The call returns nil: the receiver holds the key decoded.
UnmarshalDecodes ==
    /\ pc = "call"
    /\ UnmarshalJSON(f, data).err = "nil"
    /\ f' = UnmarshalJSON(f, data).f
    /\ err' = "nil"
    /\ pc' = "done"
    /\ UNCHANGED <<data, fBefore, stylesVars, draftVars, lookupVars, atomicVars, mediaVars,
                   restVars>>

\* The call returns an error.
UnmarshalFails ==
    /\ pc = "call"
    /\ UnmarshalJSON(f, data).err # "nil"
    /\ f' = UnmarshalJSON(f, data).f
    /\ err' = UnmarshalJSON(f, data).err
    /\ pc' = "done"
    /\ UNCHANGED <<data, fBefore, stylesVars, draftVars, lookupVars, atomicVars, mediaVars,
                   restVars>>

NextFlex == UnmarshalDecodes \/ UnmarshalFails

SpecFlex == InitFlex /\ [][NextFlex]_vars

\* ------------------------------------------- properties of applyInlineStyles

Done == pc = "done"

WellFormedRange(s, n) == s.Offset >= 0 /\ s.Length >= 0 /\ s.Offset + s.Length <= n

WellFormed(styleList, n) ==
    \A k \in 1..Len(styleList) : WellFormedRange(styleList[k], n)

KnownStyle(style) == styleMarker(style) # <<>>

\* The indices of the marker writes of w.
MarkerWrites(w) == {i \in 1..Len(w) : w[i].kind = "marker"}

\* The indices of the rune writes of w.
RuneWrites(w) == {i \in 1..Len(w) : w[i].kind = "rune"}

\* The marker writes of w made by the start (st = TRUE) or the end event of range k.
WritesOf(w, k, st) == {i \in MarkerWrites(w) : w[i].ev.src = k /\ w[i].ev.start = st}

\* w without the writes of markers.
WithoutMarkers(w) == SelectSeq(w, LAMBDA x : x.kind # "marker")

IsDelimiterChar(c) == c \in {"*", Backquote}

\* C1: for a well-formed range set, the result without the inserted delimiters
\* is the text: the writes that are not markers spell the text, and so does the
\* result string with its delimiter characters removed (the texts tried hold
\* no delimiter character of their own).
C1_TextPreserved ==
    (Done /\ WellFormed(styles, Len(text))) =>
        /\ String(WithoutMarkers(result)) = text
        /\ SelectSeq(String(result), LAMBDA c : ~IsDelimiterChar(c)) = text

\* C1 happens: two overlapping well-formed ranges with delimiters, on a text
\* of two code points.
C1_Witness ==
    /\ Done /\ Len(text) = 2 /\ Len(styles) = 2
    /\ WellFormed(styles, Len(text))
    /\ styles[1] = [Offset |-> 0, Length |-> 2, Style |-> "Bold"]
    /\ styles[2] = [Offset |-> 1, Length |-> 1, Style |-> "ITALIC"]
    /\ String(result) = <<"*", "*", "a", "*", "b", "*", "*", "*">>

\* C2: markers are written in ascending position order, each before the code
\* point of its position and after the code points before it, and at one
\* position every close marker is written before any open marker; Bold over
\* [0,1) and Italic over [1,2) of "ab" give **a***b*.
C2_ClosesBeforeOpens ==
    Done =>
        /\ \A i, j \in MarkerWrites(result) :
              i < j =>
                 /\ result[i].ev.pos <= result[j].ev.pos
                 /\ result[i].ev.pos = result[j].ev.pos =>
                       ~(result[i].ev.start /\ ~result[j].ev.start)
        /\ \A i \in MarkerWrites(result) : \A j \in RuneWrites(result) :
              (i < j) <=> (result[i].ev.pos <= result[j].at)
        /\ ( /\ text = <<"a", "b">>
             /\ styles = << [Offset |-> 0, Length |-> 1, Style |-> "Bold"],
                            [Offset |-> 1, Length |-> 1, Style |-> "ITALIC"] >> )
           => String(result) = <<"*", "*", "a", "*", "*", "*", "b", "*">>

\* C2 happens: a close and an open marker were written at one position.
C2_Witness ==
    /\ Done
    /\ text = <<"a", "b">>
    /\ styles = << [Offset |-> 0, Length |-> 1, Style |-> "Bold"],
                   [Offset |-> 1, Length |-> 1, Style |-> "ITALIC"] >>
    /\ \E i, j \in MarkerWrites(result) :
          /\ i < j /\ result[i].ev.pos = 1 /\ result[j].ev.pos = 1
          /\ ~result[i].ev.start /\ result[j].ev.start

\* C3 as stated: for a well-formed range set, zero-length ranges included, the
\* delimiter of each range with a known style is written exactly twice, the
\* one of its open event before the one of its close event.
C3_OpenBeforeClose ==
    (Done /\ WellFormed(styles, Len(text))) =>
        \A k \in 1..Len(styles) :
            KnownStyle(styles[k].Style) =>
                /\ Cardinality(WritesOf(result, k, TRUE)) = 1
                /\ Cardinality(WritesOf(result, k, FALSE)) = 1
                /\ \A i \in WritesOf(result, k, TRUE) :
                      \A j \in WritesOf(result, k, FALSE) : i < j

\* C3 amended: for a well-formed range set the delimiter of each range with a
\* known style is written exactly twice; for a range of positive length the
\* one of its open event comes first; for a zero-length range the one of its
\* close event comes first, both at the position of the range.
C3_OpenBeforeCloseUnlessEmpty ==
    (Done /\ WellFormed(styles, Len(text))) =>
        \A k \in 1..Len(styles) :
            KnownStyle(styles[k].Style) =>
                /\ Cardinality(WritesOf(result, k, TRUE)) = 1
                /\ Cardinality(WritesOf(result, k, FALSE)) = 1
                /\ \A i \in WritesOf(result, k, TRUE) :
                      \A j \in WritesOf(result, k, FALSE) :
                          /\ result[i].str = styleMarker(styles[k].Style)
                          /\ result[j].str = styleMarker(styles[k].Style)
                          /\ result[i].ev.pos = styles[k].Offset
                          /\ result[j].ev.pos = styles[k].Offset + styles[k].Length
                          /\ IF styles[k].Length > 0 THEN i < j ELSE j < i

\* C3 happens: a range of positive length and a zero-length range, both with a
\* known style, the second one ending at the end of the text.
C3_Witness ==
    /\ Done /\ Len(text) = 2 /\ Len(styles) = 2
    /\ styles[1] = [Offset |-> 0, Length |-> 2, Style |-> "Bold"]
    /\ styles[2] = [Offset |-> 2, Length |-> 0, Style |-> "ITALIC"]
    /\ String(result) = <<"*", "*", "a", "b", "*", "*", "*", "*">>

\* A bound clamped into [0, n].
ClampInto(x, n) == IF x < 0 THEN 0 ELSE IF x > n THEN n ELSE x

\* The range s clamped into [0, n].
ClampedRange(s, n) ==
    [Offset |-> ClampInto(s.Offset, n),
     Length |-> ClampInto(s.Offset + s.Length, n) - ClampInto(s.Offset, n),
     Style |-> s.Style]

ClampedStyles(styleList, n) ==
    [k \in 1..Len(styleList) |-> ClampedRange(styleList[k], n)]

\* The strings applyInlineStyles can return.
Outputs(txt, styleList) == {String(w) : w \in applyInlineStyles(txt, styleList)}

\* C4: out-of-bounds ranges are clamped: the result is the result for the
\* ranges clamped into [0, N], and both delimiters of each range with a known
\* style are written.
C4_OutOfBoundsClamped ==
    Done =>
        /\ String(result) \in Outputs(text, ClampedStyles(styles, Len(text)))
        /\ \A k \in 1..Len(styles) :
              KnownStyle(styles[k].Style) =>
                  /\ Cardinality(WritesOf(result, k, TRUE)) = 1
                  /\ Cardinality(WritesOf(result, k, FALSE)) = 1

\* The positions and classes of the marker writes of range k in w.
MarksOf(w, k) == {<<w[i].ev.pos, w[i].ev.start, w[i].str>> : i \in
                     WritesOf(w, k, TRUE) \cup WritesOf(w, k, FALSE)}

RemoveAt(seq, m) == SubSeq(seq, 1, m - 1) \o SubSeq(seq, m + 1, Len(seq))

\* C5: with one out-of-range range among well-formed ones, the open and close
\* delimiters of every well-formed range with a known style are written, at
\* the positions they have when the malformed range is absent.
C5_MalformedRangeIsolated ==
    Done =>
        \A m \in 1..Len(styles) :
            ( /\ ~WellFormedRange(styles[m], Len(text))
              /\ WellFormed(RemoveAt(styles, m), Len(text)) )
            => \A w \in applyInlineStyles(text, RemoveAt(styles, m)) :
                  \A k \in 1..Len(styles) \ {m} :
                      KnownStyle(styles[k].Style) =>
                          /\ MarksOf(result, k) # {}
                          /\ MarksOf(result, k) =
                                MarksOf(w, IF k > m THEN k - 1 ELSE k)

\* ------------------------------------------- properties of DraftJSToMarkdown

RECURSIVE AfterDigits(_)
AfterDigits(str) ==
    IF str # <<>> /\ IsDigit(Head(str)) THEN AfterDigits(Tail(str)) ELSE str

\* The number printed at the head of a part.
LeadingNumber(str) == ReadNat(str, 0)

IsOL(blockList, i) ==
    i \in 1..Len(blockList) /\ blockList[i].Type = "ordered-list-item"

RECURSIVE RunBefore(_, _)
\* The number of ordered-list-item blocks that immediately and consecutively
\* precede block i.
RunBefore(blockList, i) ==
    IF IsOL(blockList, i - 1) THEN 1 + RunBefore(blockList, i - 1) ELSE 0

\* The parts made for block i.
PartsOf(partList, i) == {j \in 1..Len(partList) : partList[j].block = i}

\* C6: at every point of the loop, each ordered-list-item block read has one
\* part, and the number printed at its head is 1 plus the number of
\* ordered-list-item blocks that immediately and consecutively precede it;
\* the counter is the length of the run of such blocks that ends the list read.
C6_NumberingPerRun ==
    /\ \A i \in 1..Len(blocks) :
          IsOL(blocks, i) =>
              /\ Cardinality(PartsOf(parts, i)) = 1
              /\ \A j \in PartsOf(parts, i) :
                    /\ LeadingNumber(parts[j].str) = 1 + RunBefore(blocks, i)
                    /\ SubSeq(AfterDigits(parts[j].str), 1, 2) = <<".", " ">>
    /\ olCounter = RunBefore(blocks, Len(blocks) + 1)

\* C6 happens: two items numbered 1 and 1, with an atomic block that makes no
\* part between them.
C6_Witness ==
    /\ pc = "done" /\ Len(blocks) = 3 /\ Len(parts) = 2
    /\ IsOL(blocks, 1) /\ blocks[2].Type = "atomic" /\ IsOL(blocks, 3)
    /\ LeadingNumber(parts[1].str) = 1 /\ LeadingNumber(parts[2].str) = 1

\* Block i is an atomic block all of whose entity keys are missing from the
\* entity map.
Unresolved(i) ==
    /\ blocks[i].Type = "atomic"
    /\ \A k \in 1..Len(blocks[i].EntityRanges) :
          blocks[i].EntityRanges[k] \notin {entityMap[e].Key : e \in 1..Len(entityMap)}

\* C8 as stated: the output is the output for the block list without the
\* atomic block whose keys are all missing.
C8_ElidedEqualsRemoved ==
    Done =>
        \A i \in 1..Len(blocks) :
            Unresolved(i) =>
                out \in DraftJSToMarkdown(RemoveAt(blocks, i), entityMap, mediaEntities)

\* A part without the number at its head, when its block is an ordered-list item.
Unnumbered(blockList, part) ==
    IF IsOL(blockList, part.block) THEN AfterDigits(part.str) ELSE part.str

\* C8 amended: an atomic block whose keys are all missing makes no part, so
\* the parts are those of the other blocks, in order, joined by one blank
\* line; the output is the output for the list without the block, unless the
\* block stands directly between two ordered-list items: it still resets the
\* counter, so there the item after it is numbered 1, and the parts differ
\* from those of the list without it in the numbers alone.
C8_ElidedButResetsCounter ==
    Done =>
        \A i \in 1..Len(blocks) :
            Unresolved(i) =>
                /\ PartsOf(parts, i) = {}
                /\ IF IsOL(blocks, i - 1) /\ IsOL(blocks, i + 1)
                   THEN /\ \A j \in PartsOf(parts, i + 1) :
                              LeadingNumber(parts[j].str) = 1
                        /\ \E ps \in draftParts(RemoveAt(blocks, i), 1, 0, <<>>,
                                                entityLookup, mediaLookup) :
                              /\ Len(ps) = Len(parts)
                              /\ \A j \in 1..Len(ps) :
                                    Unnumbered(RemoveAt(blocks, i), ps[j])
                                       = Unnumbered(blocks, parts[j])
                   ELSE out \in DraftJSToMarkdown(RemoveAt(blocks, i), entityMap,
                                                  mediaEntities)

\* C8 happens: an atomic block with a missing key between two paragraphs, in
\* a document whose entity map holds other keys.
C8_Witness ==
    /\ Done /\ Len(blocks) = 3 /\ entityMap # <<>>
    /\ blocks[1] = PlainBlock("unstyled", <<"a">>)
    /\ blocks[2] = AtomicBlockOf(<<MissingKey>>)
    /\ blocks[3] = BoldBlock("unstyled", <<"b">>)
    /\ out = <<"a", "\n", "\n", "*", "*", "b", "*", "*">>

\* ------------------------------------------- properties of renderAtomicBlock

\* The ranges of the block whose key is in the entity map.
ResolvedRanges == {k \in 1..Len(atomicBlock.EntityRanges) :
                      atomicBlock.EntityRanges[k] \in DOMAIN entityLookup}

\* The ranges of the block whose key is in the map with a MEDIA or DIVIDER entity.
RenderableRanges == {k \in ResolvedRanges :
                        entityLookup[atomicBlock.EntityRanges[k]].Type \in {"MEDIA", "DIVIDER"}}

Least(S) == CHOOSE k \in S : \A j \in S : k <= j

\* What the entity of range k alone renders as.
RenderingOf(k) ==
    LET e == entityLookup[atomicBlock.EntityRanges[k]] IN
    CASE e.Type = "MEDIA" -> renderMediaEntity(e, mediaLookup)
      [] e.Type = "DIVIDER" -> <<"-", "-", "-">>
      [] OTHER -> <<>>

IdsOf(entities) == {entities[k].MediaID : k \in 1..Len(entities)}

Greatest(S) == CHOOSE k \in S : \A j \in S : k >= j

\* C9 as stated: each media id of the list is mapped to the image URL of the
\* last entry that carries the id.
C9_LastEntryWins ==
    Done =>
        \A id \in IdsOf(mediaEntities) :
            LET last == mediaEntities[Greatest({k \in 1..Len(mediaEntities) :
                                                   mediaEntities[k].MediaID = id})]
            IN /\ id \in DOMAIN mediaLookup
               /\ last.MediaInfo # <<>>
               /\ mediaLookup[id] = last.MediaInfo[1].OriginalImgURL

\* The entries of the list that carry id with media info and a non-empty URL.
UsableEntries(entities, id) ==
    {k \in 1..Len(entities) : entities[k].MediaID = id /\ mediaUsable(entities[k])}

\* C9 amended: the map holds the ids that some entry carries with media info
\* and a non-empty image URL, each mapped to the URL of the last such entry,
\* whatever the earlier entries held; entries without media info or with an
\* empty URL change nothing.
C9_LastUsableEntryWins ==
    Done =>
        /\ DOMAIN mediaLookup =
              {id \in IdsOf(mediaEntities) : UsableEntries(mediaEntities, id) # {}}
        /\ \A id \in DOMAIN mediaLookup :
              mediaLookup[id] =
                 mediaEntities[Greatest(UsableEntries(mediaEntities, id))]
                    .MediaInfo[1].OriginalImgURL

\* C9 happens: one id with two URLs in turn, then without media info.
C9_Witness ==
    /\ Done
    /\ mediaEntities = <<Media("m1", URL1), Media("m1", URL2),
                         [MediaID |-> "m1", MediaInfo |-> <<>>]>>
    /\ mediaLookup = MapPut(<<>>, "m1", URL2)

\* -------------------------------------- properties of FlexInt.UnmarshalJSON

\* The decimal text of the integer n.
FormatInt(n) == IF n < 0 THEN <<"-">> \o Itoa(0 - n) ELSE Itoa(n)

\* str is the decimal text of an integer.
IsDecimalText(str) == jsonIntLiteral(str) /\ str # <<"-", "0">>

\* The content of the JSON string bytes.
StringContent(bytes) == SubSeq(jsonTrim(bytes), 2, Len(jsonTrim(bytes)) - 1)

\* str is an integer as strconv reads one: an optional sign and digits.
IsIntegerText(str) ==
    \/ AllDigits(str)
    \/ str # <<>> /\ Head(str) \in {"+", "-"} /\ AllDigits(Tail(str))

\* The bare integer and the string of its decimal text decode to its value.
FlexDecodesBoth ==
    Done =>
        /\ IsDecimalText(data) => (err = "nil" /\ FormatInt(f) = data)
        /\ (jsonStringLiteral(data) /\ IsDecimalText(StringContent(data)))
              => (err = "nil" /\ FormatInt(f) = StringContent(data))

\* A string that is not an integer is an error and leaves the receiver.
FlexRejectsOtherStrings ==
    Done =>
        ((jsonStringLiteral(jsonTrim(data)) /\ ~IsIntegerText(StringContent(data)))
            => (err # "nil" /\ f = fBefore))

\* A JSON value that is neither an integer nor a string is an error and
\* leaves the receiver.
FlexRejectsOtherValues ==
    Done =>
        ((\/ jsonTrim(data) = JSONNull
          \/ jsonFractionLiteral(jsonTrim(data))
          \/ jsonOtherValue(jsonTrim(data)))
            => (err # "nil" /\ f = fBefore))

\* C10: a bare JSON integer n and the JSON string of the decimal text of n
\* decode to the key n; a string that is not a valid integer, and a JSON value
\* that is neither an integer nor a string, give an error and leave the
\* receiver unchanged.
C10_FlexIntDecoding ==
    FlexDecodesBoth /\ FlexRejectsOtherStrings /\ FlexRejectsOtherValues

\* ------------------------------------------------------------------ regexp

\* The letters A-Z, each with its lower-case letter.
UpperToLower ==
    [A |-> "a", B |-> "b", C |-> "c", D |-> "d", E |-> "e", F |-> "f", G |-> "g",
     H |-> "h", I |-> "i", J |-> "j", K |-> "k", L |-> "l", M |-> "m", N |-> "n",
     O |-> "o", P |-> "p", Q |-> "q", R |-> "r", S |-> "s", T |-> "t", U |-> "u",
     V |-> "v", W |-> "w", X |-> "x", Y |-> "y", Z |-> "z"]

IsUpper(c) == c \in DOMAIN UpperToLower

IsLower(c) == \E u \in DOMAIN UpperToLower : UpperToLower[u] = c

\* The simple case folding of the flag (?i) and of strings.EqualFold, on ASCII.
Lower(c) == IF IsUpper(c) THEN UpperToLower[c] ELSE c

\* The character classes of the patterns: . under the flag s, [^>], [^"], \s,
\* [ \t] and \n.
InClass(c, cls) ==
    CASE cls = "any" -> TRUE
      [] cls = "notgt" -> c # ">"
      [] cls = "notquote" -> c # Quote
      [] cls = "space" -> c \in {" ", "\t", "\n", "\r", "\f"}
      [] cls = "blank" -> c \in {" ", "\t"}
      [] cls = "newline" -> c = "\n"

\* The items a pattern is the concatenation of: a literal (every pattern with
\* letters carries the flag i, so literals match case-insensitively), one
\* character of a class, a greedy and a lazy star of a class, a greedy optional
\* group, an alternation of two groups, and the two ends of capture group n.
Lit(str) == [t |-> "lit", str |-> str]
One(cls) == [t |-> "one", cls |-> cls]
Star(cls) == [t |-> "star", cls |-> cls]
Lazy(cls) == [t |-> "lazy", cls |-> cls]
Opt(sub) == [t |-> "opt", sub |-> sub]
Alt(a, b) == [t |-> "alt", a |-> a, b |-> b]
Open(n) == [t |-> "open", n |-> n]
Close(n) == [t |-> "close", n |-> n]

\* No match. A match has the position after its last character, and for each
\* of the two capture groups the positions at both ends, 0 for a group that
\* took no part.
NoMatch == [ok |-> FALSE, end |-> 0, from |-> <<0, 0>>, to |-> <<0, 0>>, start |-> 0]

litAt(lit, str, pos) ==
    /\ pos + Len(lit) - 1 <= Len(str)
    /\ \A k \in 1..Len(lit) : Lower(str[pos + k - 1]) = Lower(lit[k])

\* The position after the longest run of characters of cls from pos.
runEnd(cls, str, pos) ==
    LET stops == {p \in pos..Len(str) : ~InClass(str[p], cls)} IN
    IF stops = {} THEN Len(str) + 1 ELSE Least(stops)

RECURSIVE match(_, _, _)

\* The match of the items at pos that a backtracking search finds first, which
\* is the leftmost-first match of package regexp: a greedy star takes the
\* longest run after which the rest matches, a lazy star the shortest, an
\* optional group is taken if the rest matches then, and of two alternatives
\* the first is.
match(items, str, pos) ==
    IF items = <<>>
    THEN [ok |-> TRUE, end |-> pos, from |-> <<0, 0>>, to |-> <<0, 0>>, start |-> 0]
    ELSE LET it == Head(items)
             rest == Tail(items)
             ends == {q \in pos..runEnd(it.cls, str, pos) : match(rest, str, q).ok}
         IN CASE it.t = "lit" ->
                   IF litAt(it.str, str, pos) THEN match(rest, str, pos + Len(it.str))
                   ELSE NoMatch
              [] it.t = "one" ->
                   IF pos <= Len(str) /\ InClass(str[pos], it.cls)
                   THEN match(rest, str, pos + 1) ELSE NoMatch
              [] it.t = "star" ->
                   IF ends = {} THEN NoMatch ELSE match(rest, str, Greatest(ends))
              [] it.t = "lazy" ->
                   IF ends = {} THEN NoMatch ELSE match(rest, str, Least(ends))
              [] it.t = "opt" ->
                   LET taken == match(it.sub \o rest, str, pos) IN
                   IF taken.ok THEN taken ELSE match(rest, str, pos)
              [] it.t = "alt" ->
                   LET first == match(it.a \o rest, str, pos) IN
                   IF first.ok THEN first ELSE match(it.b \o rest, str, pos)
              [] it.t = "open" ->
                   LET r == match(rest, str, pos) IN
                   IF r.ok THEN [r EXCEPT !.from[it.n] = pos] ELSE r
              [] it.t = "close" ->
                   LET r == match(rest, str, pos) IN
                   IF r.ok THEN [r EXCEPT !.to[it.n] = pos] ELSE r

\* The match of re at the least of the positions starts, where it matches.
leftmost(re, str, starts) ==
    IF starts = {} THEN NoMatch
    ELSE [match(re, str, Least(starts)) EXCEPT !.start = Least(starts)]

\* The leftmost match that starts at pos or later.
find(re, str, pos) == leftmost(re, str, {p \in pos..Len(str) : match(re, str, p).ok})

RECURSIVE findAll(_, _, _)
RECURSIVE andAfter(_, _, _)
\* The match r, if it is one, and the matches after it.
andAfter(re, str, r) == IF r.ok THEN <<r>> \o findAll(re, str, r.end) ELSE <<>>

\* The successive matches without overlap, from pos on. No pattern of the
\* program matches the empty string.
findAll(re, str, pos) == andAfter(re, str, find(re, str, pos))

\* The text of capture group n of a match, empty for a group that took no part.
group(str, r, n) == IF r.from[n] = 0 THEN <<>> ELSE SubSeq(str, r.from[n], r.to[n] - 1)

matched(str, r) == SubSeq(str, r.start, r.end - 1)

\* The match and the text of the two groups; no element for no match.
submatch(str, r) ==
    IF r.ok THEN <<matched(str, r), group(str, r, 1), group(str, r, 2)>> ELSE <<>>

\* Regexp.FindStringSubmatch
FindStringSubmatch(re, str) == submatch(str, find(re, str, 1))

submatches(str, all) == [k \in 1..Len(all) |-> submatch(str, all[k])]

\* Regexp.FindAllStringSubmatch(str, -1)
FindAllStringSubmatch(re, str) == submatches(str, findAll(re, str, 1))

matchedAll(str, all) == [k \in 1..Len(all) |-> matched(str, all[k])]

\* Regexp.FindAllString(str, -1)
FindAllString(re, str) == matchedAll(str, findAll(re, str, 1))

\* str with the matches all replaced, the k-th one by repls[k].
replaced(str, all, repls) ==
    Concat([k \in 1..Len(all) |->
               SubSeq(str, IF k = 1 THEN 1 ELSE all[k - 1].end, all[k].start - 1)
               \o repls[k]])
    \o SubSeq(str, IF Len(all) = 0 THEN 1 ELSE all[Len(all)].end, Len(str))

\* Regexp.ReplaceAllStringFunc, the function given by its values on the
\* matches: repls[k] is what it returns for the k-th match.
ReplaceAllStringFunc(re, str, repls) == replaced(str, findAll(re, str, 1), repls)

\* The reference to capture group 1 in a replacement template.
Group1 == "$1"

\* The template with the text of group 1 of the match r where it holds $1.
expanded(str, r, template) ==
    Concat([j \in 1..Len(template) |->
               IF template[j] = Group1 THEN group(str, r, 1) ELSE <<template[j]>>])

replacedByTemplate(str, all, template) ==
    replaced(str, all, [k \in 1..Len(all) |-> expanded(str, all[k], template)])

\* Regexp.ReplaceAllString: the template is the replacement, character by
\* character, with Group1 where it holds $1.
ReplaceAllString(re, str, template) == replacedByTemplate(str, findAll(re, str, 1), template)

\* strings.ReplaceAll, for an old string that is not empty and holds no letter
ReplaceAll(str, old, new) == ReplaceAllString(<<Lit(old)>>, str, new)

\* ------------------------------------------------------ html.UnescapeString

\* The named character references of the table of package html that the inputs
\* tried can spell, with and without the semicolon.
entity ==
    (<<"l", "t", ";">> :> "<") @@ (<<"l", "t">> :> "<") @@ (<<"g", "t", ";">> :> ">") @@ (<<"g", "t">> :> ">")
    @@ (<<"a", "m", "p", ";">> :> "&") @@ (<<"a", "m", "p">> :> "&")

longestEntityWithoutSemicolon == 6

IsAlnum(c) == IsLower(c) \/ IsUpper(c) \/ IsDigit(c)

RECURSIVE nameEnd(_, _)
\* The position after the name of a reference: letters and digits, and one
\* semicolon after them.
nameEnd(str, k) ==
    IF k <= Len(str) /\ IsAlnum(str[k]) THEN nameEnd(str, k + 1)
    ELSE IF k <= Len(str) /\ str[k] = ";" THEN k + 1
    ELSE k

RECURSIVE entityPrefix(_, _)
\* The longest prefix of the name, of j characters at most and of two at
\* least, that is a reference without semicolon; 0 for none.
entityPrefix(name, j) ==
    IF j <= 1 THEN 0
    ELSE IF SubSeq(name, 1, j) \in DOMAIN entity THEN j
    ELSE entityPrefix(name, j - 1)

\* unescapeEntity outside an attribute, for the "&" at src: the text written and
\* the position where reading goes on. The inputs tried hold no numeric
\* reference (no "#").
unescapeEntity(str, src) ==
    IF Len(str) - src + 1 <= 1 THEN [out |-> <<"&">>, next |-> src + 1]
    ELSE LET e == nameEnd(str, src + 1)
             entityName == SubSeq(str, src + 1, e - 1)
             maxLen == IF Len(entityName) - 1 > longestEntityWithoutSemicolon
                       THEN longestEntityWithoutSemicolon ELSE Len(entityName) - 1
             j == entityPrefix(entityName, maxLen)
         IN IF entityName # <<>> /\ entityName \in DOMAIN entity
            THEN [out |-> <<entity[entityName]>>, next |-> e]
            ELSE IF entityName # <<>> /\ j > 0
            THEN [out |-> <<entity[SubSeq(entityName, 1, j)]>>, next |-> src + j + 1]
            ELSE [out |-> SubSeq(str, src, e - 1), next |-> e]

RECURSIVE unescapeFrom(_, _)
\* The text from src on, unescaped: up to the next "&" it is copied.
unescapeFrom(str, src) ==
    LET amps == {p \in src..Len(str) : str[p] = "&"} IN
    IF amps = {} THEN SubSeq(str, src, Len(str))
    ELSE LET u == unescapeEntity(str, Least(amps)) IN
         SubSeq(str, src, Least(amps) - 1) \o u.out \o unescapeFrom(str, u.next)

\* html.UnescapeString
UnescapeString(str) == unescapeFrom(str, 1)

\* ----------------------------------------------------------- HTMLToMarkdown

\* <[^>]*>
tagRe == <<Lit(<<"<">>), Star("notgt"), Lit(<<">">>)>>

stripTags(str) == ReplaceAllString(tagRe, str, <<>>)

\* (?is)<pre[^>]*>(.*?)</pre>
preBlockRe ==
    <<Lit(<<"<", "p", "r", "e">>), Star("notgt"), Lit(<<">">>), Open(1), Lazy("any"), Close(1), Lit(<<"<", "/", "p", "r", "e", ">">>)>>

\* (?is)<code(?:\s+class="language-([^"]*)")?[^>]*>(.*?)</code>
codeInPreRe ==
    <<Lit(<<"<", "c", "o", "d", "e">>),
      Opt(<<One("space"), Star("space"), Lit(<<"c", "l", "a", "s", "s", "=", "\"", "l", "a", "n", "g", "u", "a", "g", "e", "-">>), Open(1),
            Star("notquote"), Close(1), Lit(<<"\"">>)>>),
      Star("notgt"), Lit(<<">">>), Open(2), Lazy("any"), Close(2), Lit(<<"<", "/", "c", "o", "d", "e", ">">>)>>

\* The fenced code block of a language hint and a content.
fenced(lang, content) == <<"\n", "\n">> \o Fence \o lang \o <<"\n">> \o content \o <<"\n">> \o Fence \o <<"\n", "\n">>

\* The function processPreBlocks replaces each match by.
\* content of the region and the match cm of codeInPreRe in it.
preCode(content, cm) ==
    fenced(IF cm # <<>> THEN cm[2] ELSE <<>>,
           TrimSpace(stripTags(UnescapeString(IF cm # <<>> THEN cm[3] ELSE content))))

\* inner is the match of preBlockRe in found.
preInner(found, inner) ==
    IF inner = <<>> THEN found
    ELSE preCode(inner[2], FindStringSubmatch(codeInPreRe, inner[2]))

preBlock(found) == preInner(found, FindStringSubmatch(preBlockRe, found))

preBlocks(found) == [k \in 1..Len(found) |-> preBlock(found[k])]

processPreBlocks(str) ==
    ReplaceAllStringFunc(preBlockRe, str, preBlocks(FindAllString(preBlockRe, str)))

\* (?is)<hN[^>]*>(.*?)</hN>, for N the level
headingRe(level) ==
    <<Lit(<<"<", "h">> \o Itoa(level)), Star("notgt"), Lit(<<">">>), Open(1), Lazy("any"), Close(1),
      Lit(<<"<", "/", "h">> \o Itoa(level) \o <<">">>)>>

heading(level, found) ==
    <<"\n", "\n">> \o [k \in 1..level |-> "#"] \o <<" ">>
    \o TrimSpace(stripTags(FindStringSubmatch(headingRe(level), found)[2])) \o <<"\n", "\n">>

headings(level, found) == [k \in 1..Len(found) |-> heading(level, found[k])]

RECURSIVE processHeadingsFrom(_, _)
\* The rewrites of the levels from level to 6, one after the other.
processHeadingsFrom(str, level) ==
    IF level > 6 THEN str
    ELSE processHeadingsFrom(
             ReplaceAllStringFunc(headingRe(level), str,
                                  headings(level, FindAllString(headingRe(level), str))),
             level + 1)

processHeadings(str) == processHeadingsFrom(str, 1)

\* (?is)<blockquote[^>]*>(.*?)</blockquote>
blockquoteRe ==
    <<Lit(<<"<", "b", "l", "o", "c", "k", "q", "u", "o", "t", "e">>), Star("notgt"), Lit(<<">">>), Open(1), Lazy("any"), Close(1),
      Lit(<<"<", "/", "b", "l", "o", "c", "k", "q", "u", "o", "t", "e", ">">>)>>

\* The lines of a quote, each trimmed and after "> ".
quoted(lines) ==
    <<"\n", "\n">> \o Join([k \in 1..Len(lines) |-> <<">", " ">> \o TrimSpace(lines[k])], <<"\n">>) \o <<"\n", "\n">>

blockquote(found) ==
    quoted(Split(TrimSpace(stripTags(FindStringSubmatch(blockquoteRe, found)[2])), "\n"))

blockquotes(found) == [k \in 1..Len(found) |-> blockquote(found[k])]

processBlockquotes(str) ==
    ReplaceAllStringFunc(blockquoteRe, str, blockquotes(FindAllString(blockquoteRe, str)))

\* (?is)<ul[^>]*>(.*?)</ul>
ulRe == <<Lit(<<"<", "u", "l">>), Star("notgt"), Lit(<<">">>), Open(1), Lazy("any"), Close(1), Lit(<<"<", "/", "u", "l", ">">>)>>
\* (?is)<ol[^>]*>(.*?)</ol>
olRe == <<Lit(<<"<", "o", "l">>), Star("notgt"), Lit(<<">">>), Open(1), Lazy("any"), Close(1), Lit(<<"<", "/", "o", "l", ">">>)>>
\* (?is)<li[^>]*>(.*?)</li>
liRe == <<Lit(<<"<", "l", "i">>), Star("notgt"), Lit(<<">">>), Open(1), Lazy("any"), Close(1), Lit(<<"<", "/", "l", "i", ">">>)>>

\* The items of a list, each after "- ".
bulleted(items) ==
    <<"\n", "\n">>
    \o Join([k \in 1..Len(items) |-> <<"-", " ">> \o TrimSpace(stripTags(items[k][2]))], <<"\n">>)
    \o <<"\n", "\n">>

\* The items of a list, each after its number from 1.
numbered(items) ==
    <<"\n", "\n">>
    \o Join([k \in 1..Len(items) |-> Itoa(k) \o <<".", " ">> \o TrimSpace(stripTags(items[k][2]))],
            <<"\n">>)
    \o <<"\n", "\n">>

unorderedList(found) ==
    bulleted(FindAllStringSubmatch(liRe, FindStringSubmatch(ulRe, found)[2]))

orderedList(found) ==
    numbered(FindAllStringSubmatch(liRe, FindStringSubmatch(olRe, found)[2]))

unorderedLists(found) == [k \in 1..Len(found) |-> unorderedList(found[k])]

orderedLists(found) == [k \in 1..Len(found) |-> orderedList(found[k])]

processUnorderedLists(str) ==
    ReplaceAllStringFunc(ulRe, str, unorderedLists(FindAllString(ulRe, str)))

processOrderedLists(str) ==
    ReplaceAllStringFunc(olRe, str, orderedLists(FindAllString(olRe, str)))

processLists(str) == processOrderedLists(processUnorderedLists(str))

\* (?is)<p[^>]*>(.*?)</p>
pRe == <<Lit(<<"<", "p">>), Star("notgt"), Lit(<<">">>), Open(1), Lazy("any"), Close(1), Lit(<<"<", "/", "p", ">">>)>>

processParagraphs(str) == ReplaceAllString(pRe, str, <<"\n", "\n", Group1, "\n", "\n">>)

\* (?i)<hr\s*/?>
hrRe == <<Lit(<<"<", "h", "r">>), Star("space"), Opt(<<Lit(<<"/">>)>>), Lit(<<">">>)>>

processHorizontalRules(str) == ReplaceAllString(hrRe, str, <<"\n", "\n", "-", "-", "-", "\n", "\n">>)

\* (?is)<a\s[^>]*href="([^"]*)"[^>]*>(.*?)</a>
linkRe ==
    <<Lit(<<"<", "a">>), One("space"), Star("notgt"), Lit(<<"h", "r", "e", "f", "=", "\"">>), Open(1), Star("notquote"),
      Close(1), Lit(<<"\"">>), Star("notgt"), Lit(<<">">>), Open(2), Lazy("any"), Close(2),
      Lit(<<"<", "/", "a", ">">>)>>

\* The link of a target and a text, the target standing in for no text.
linkTo(href, stripped) ==
    <<"[">> \o (IF stripped = <<>> THEN href ELSE stripped) \o <<"]", "(">> \o href \o <<")">>

linkOf(linkParts) == linkTo(linkParts[2], TrimSpace(stripTags(linkParts[3])))

link(found) == linkOf(FindStringSubmatch(linkRe, found))

links(found) == [k \in 1..Len(found) |-> link(found[k])]

processLinks(str) == ReplaceAllStringFunc(linkRe, str, links(FindAllString(linkRe, str)))

\* (?i)<img\s[^>]*src="([^"]*)"[^>]*(?:alt="([^"]*)")?[^>]*/?>
imgRe ==
    <<Lit(<<"<", "i", "m", "g">>), One("space"), Star("notgt"), Lit(<<"s", "r", "c", "=", "\"">>), Open(1), Star("notquote"),
      Close(1), Lit(<<"\"">>), Star("notgt"),
      Opt(<<Lit(<<"a", "l", "t", "=", "\"">>), Open(2), Star("notquote"), Close(2), Lit(<<"\"">>)>>),
      Star("notgt"), Opt(<<Lit(<<"/">>)>>), Lit(<<">">>)>>

\* The function processImages replaces each match by. FindStringSubmatch yields
\* three elements for a pattern of two groups.
imageOf(imgParts) ==
    <<"!", "[">> \o (IF Len(imgParts) > 2 THEN imgParts[3] ELSE <<>>) \o <<"]", "(">> \o imgParts[2] \o <<")">>

image(found) == imageOf(FindStringSubmatch(imgRe, found))

images(found) == [k \in 1..Len(found) |-> image(found[k])]

processImages(str) == ReplaceAllStringFunc(imgRe, str, images(FindAllString(imgRe, str)))

\* (?is)<(?:strong|b)>(.*?)</(?:strong|b)>
boldRe ==
    <<Lit(<<"<">>), Alt(<<Lit(<<"s", "t", "r", "o", "n", "g">>)>>, <<Lit(<<"b">>)>>), Lit(<<">">>), Open(1), Lazy("any"),
      Close(1), Lit(<<"<", "/">>), Alt(<<Lit(<<"s", "t", "r", "o", "n", "g">>)>>, <<Lit(<<"b">>)>>), Lit(<<">">>)>>

processBold(str) == ReplaceAllString(boldRe, str, <<"*", "*", Group1, "*", "*">>)

\* (?is)<(?:em|i)>(.*?)</(?:em|i)>
italicRe ==
    <<Lit(<<"<">>), Alt(<<Lit(<<"e", "m">>)>>, <<Lit(<<"i">>)>>), Lit(<<">">>), Open(1), Lazy("any"),
      Close(1), Lit(<<"<", "/">>), Alt(<<Lit(<<"e", "m">>)>>, <<Lit(<<"i">>)>>), Lit(<<">">>)>>

processItalic(str) == ReplaceAllString(italicRe, str, <<"*", Group1, "*">>)

\* (?is)<code>(.*?)</code>
inlineCodeRe == <<Lit(<<"<", "c", "o", "d", "e", ">">>), Open(1), Lazy("any"), Close(1), Lit(<<"<", "/", "c", "o", "d", "e", ">">>)>>

processInlineCode(str) == ReplaceAllString(inlineCodeRe, str, <<Backquote, Group1, Backquote>>)

\* (?i)<br\s*/?>
brRe == <<Lit(<<"<", "b", "r">>), Star("space"), Opt(<<Lit(<<"/">>)>>), Lit(<<">">>)>>

processLineBreaks(str) == ReplaceAllString(brRe, str, <<"\n">>)

\* \n{3,}
multiNewlineRe == <<Lit(<<"\n", "\n", "\n">>), Star("newline")>>
\* [ \t]+\n
trailingSpaceRe == <<One("blank"), Star("blank"), Lit(<<"\n">>)>>

\* Bug variant of cleanWhitespace: the runs of newlines are collapsed before
\* the trailing blanks are removed.
cleanWhitespaceNewlinesFirst(str) ==
    ReplaceAllString(trailingSpaceRe, ReplaceAllString(multiNewlineRe, str, <<"\n", "\n">>), <<"\n">>)

cleanWhitespace(str) ==
    ReplaceAllString(multiNewlineRe, ReplaceAllString(trailingSpaceRe, str, <<"\n">>), <<"\n", "\n">>)

\* s = strings.ReplaceAll(s, "\r\n", "\n"); s = strings.ReplaceAll(s, "\r", "\n")
normalizeLineEndings(str) == ReplaceAll(ReplaceAll(str, <<"\r", "\n">>, <<"\n">>), <<"\r">>, <<"\n">>)

\* The passes of HTMLToMarkdown in the order of the calls, each with the name
\* of the position before it.
Passes ==
    <<"normalize", "pre", "headings", "blockquotes", "lists", "paragraphs", "rules",
      "links", "images", "bold", "italic", "code", "breaks", "strip", "unescape",
      "clean", "trim">>

\* ------------------------------------------------ inputs of HTMLToMarkdown

\* The longest list of elements of one fragment.
MaxElems == 2

RECURSIVE EscapeString(_)
\* html.EscapeString on the characters tried: how a writer of HTML spells text.
EscapeString(str) ==
    IF str = <<>> THEN <<>>
    ELSE (CASE Head(str) = "<" -> <<"&", "l", "t", ";">>
            [] Head(str) = ">" -> <<"&", "g", "t", ";">>
            [] Head(str) = "&" -> <<"&", "a", "m", "p", ";">>
            [] OTHER -> <<Head(str)>>) \o EscapeString(Tail(str))

\* An element of a fragment: its markup; for a <pre> region the language hint
\* and the code text it shows; for an image the source and, as a list of no
\* or one element, the alternative text.
Element(kind, html) ==
    [kind |-> kind, html |-> html, lang |-> <<>>, code |-> <<>>, src |-> <<>>, alt |-> <<>>]

Pre(code) ==
    [Element("pre", <<"<", "p", "r", "e", ">">> \o EscapeString(code) \o <<"<", "/", "p", "r", "e", ">">>) EXCEPT !.code = code]

PreCode(lang, code) ==
    [Element("pre", <<"<", "p", "r", "e", ">", "<", "c", "o", "d", "e", " ", "c", "l", "a", "s", "s", "=", "\"", "l", "a", "n", "g", "u", "a", "g", "e", "-">> \o lang \o <<"\"", ">">> \o EscapeString(code)
                    \o <<"<", "/", "c", "o", "d", "e", ">", "<", "/", "p", "r", "e", ">">>)
       EXCEPT !.code = code, !.lang = lang]

Img(src, alt) ==
    [Element("img", <<"<", "i", "m", "g", " ", "s", "r", "c", "=", "\"">> \o src \o <<"\"", " ", "a", "l", "t", "=", "\"">> \o alt \o <<"\"", ">">>)
       EXCEPT !.src = src, !.alt = <<alt>>]

ImgAltFirst(src, alt) ==
    [Element("img", <<"<", "i", "m", "g", " ", "a", "l", "t", "=", "\"">> \o alt \o <<"\"", " ", "s", "r", "c", "=", "\"">> \o src \o <<"\"", "/", ">">>)
       EXCEPT !.src = src, !.alt = <<alt>>]

ImgNoAlt(src) == [Element("img", <<"<", "i", "m", "g", " ", "s", "r", "c", "=", "\"">> \o src \o <<"\"", ">">>) EXCEPT !.src = src]

\* The code texts tried: with a "<" alone, with a "<" and a ">" after it, with
\* a run of blank lines and a blank at the end of a line, and spelling a
\* character reference.
CodesTried == {<<"a", " ", "<", " ", "b">>, <<"x", " ", "\n", "\n", "\n", "y">>, <<"&", "l", "t", ";">>}

ElementsTried ==
    {Pre(code) : code \in CodesTried}
    \cup { PreCode(<<"g", "o">>, <<"a", " ", "<", " ", "b", " ", ">", " ", "c">>),
           Img(URL1, <<"A">>), ImgAltFirst(URL1, <<"A">>), ImgNoAlt(URL2),
           Element("text", <<"a">>),
           Element("text", <<" ", "\r", "\n">>),
           Element("blockquote", <<"<", "b", "l", "o", "c", "k", "q", "u", "o", "t", "e", ">", "q", "<", "/", "b", "l", "o", "c", "k", "q", "u", "o", "t", "e", ">">>),
           Element("p", <<"<", "P", ">", " ", "<", "/", "P", ">">>),
           Element("block", <<"<", "h", "2", ">", "t", "<", "/", "h", "2", ">", "<", "h", "r", "/", ">", "<", "u", "l", ">", "<", "l", "i", ">", "a", "<", "/", "l", "i", ">", "<", "/", "u", "l", ">", "<", "o", "l", ">", "<", "l", "i", ">", "b", "<", "/", "l", "i", ">", "<", "/", "o", "l", ">">>),
           Element("inline",
                   <<"<", "a", " ", "h", "r", "e", "f", "=", "\"", "u", "\"", ">", "a", "<", "/", "a", ">", "<", "b", ">", "a", "<", "/", "b", ">", "<", "e", "m", ">", "a", "<", "/", "e", "m", ">", "<", "c", "o", "d", "e", ">", "a", "<", "/", "c", "o", "d", "e", ">", "<", "b", "r", ">", " ", "<", "b", "r", ">", "<", "b", "r", ">", "b">>) }

FragmentsTried == UNION {[1..k -> ElementsTried] : k \in 0..MaxElems}

\* --------------------------------------------------- specification: SpecHtml

InitHtml ==
    /\ pc = Passes[1]
    /\ htmlDoc \in FragmentsTried
    /\ htmlStr = Concat([k \in 1..Len(htmlDoc) |-> htmlDoc[k].html])
    /\ md = htmlStr
    /\ IdleStyles /\ IdleDraft /\ IdleLookups /\ IdleAtomic /\ IdleMedia /\ IdleFlex
    /\ IdleThread /\ IdleFront

\* The pass at position k, which yields passed: s = pass(s)
Pass(k, passed) ==
    /\ pc = Passes[k]
    /\ md' = passed
    /\ pc' = IF k < Len(Passes) THEN Passes[k + 1] ELSE "done"
    /\ UNCHANGED <<htmlDoc, htmlStr>>
    /\ UNCHANGED <<stylesVars, draftVars, lookupVars, atomicVars, mediaVars, flexVars,
                   threadVars, frontVars>>

NormalizeLineEndings == Pass(1, normalizeLineEndings(md))
ProcessPreBlocks == Pass(2, processPreBlocks(md))
ProcessHeadings == Pass(3, processHeadings(md))
ProcessBlockquotes == Pass(4, processBlockquotes(md))
ProcessLists == Pass(5, processLists(md))
ProcessParagraphs == Pass(6, processParagraphs(md))
ProcessHorizontalRules == Pass(7, processHorizontalRules(md))
ProcessLinks == Pass(8, processLinks(md))
ProcessImages == Pass(9, processImages(md))
ProcessBold == Pass(10, processBold(md))
ProcessItalic == Pass(11, processItalic(md))
ProcessInlineCode == Pass(12, processInlineCode(md))
ProcessLineBreaks == Pass(13, processLineBreaks(md))
StripTags == Pass(14, stripTags(md))
DecodeEntities == Pass(15, UnescapeString(md))
CleanWhitespace == Pass(16, cleanWhitespace(md))
ReturnTrimmed == Pass(17, TrimSpace(md))

NextHtml ==
    \/ NormalizeLineEndings \/ ProcessPreBlocks \/ ProcessHeadings \/ ProcessBlockquotes
    \/ ProcessLists \/ ProcessParagraphs \/ ProcessHorizontalRules \/ ProcessLinks
    \/ ProcessImages \/ ProcessBold \/ ProcessItalic \/ ProcessInlineCode
    \/ ProcessLineBreaks \/ StripTags \/ DecodeEntities \/ CleanWhitespace
    \/ ReturnTrimmed

SpecHtml == InitHtml /\ [][NextHtml]_vars

\* ------------------------------------------------ properties: HTMLToMarkdown

\* str holds sub, which is not empty.
Contains(str, sub) ==
    \E p \in 1..(Len(str) - Len(sub) + 1) : SubSeq(str, p, p + Len(sub) - 1) = sub

HasNewlineRun(str) == Contains(str, <<"\n", "\n", "\n">>)

HasBlankBeforeNewline(str) ==
    \E p \in 1..(Len(str) - 1) : str[p] \in {" ", "\t"} /\ str[p + 1] = "\n"

\* The <pre> regions and the images of the fragment.
PreElements == {k \in 1..Len(htmlDoc) : htmlDoc[k].kind = "pre"}
ImgElements == {k \in 1..Len(htmlDoc) : htmlDoc[k].kind = "img"}

\* The fenced code block that shows the code text of element e literally.
FencedCode(e) == Fence \o e.lang \o <<"\n">> \o TrimSpace(e.code) \o <<"\n">> \o Fence

\* A code text that whitespace normalization has nothing to do on.
WhitespaceStable(code) == ~HasNewlineRun(code) /\ ~HasBlankBeforeNewline(code)

\* A code text without a character of markup.
NoMarkup(code) == \A p \in 1..Len(code) : code[p] \notin {"<", ">", "&"}

\* C11 as stated: the code text of every <pre> region stands literally in its
\* fenced block in the output of HTMLToMarkdown, whatever follows it in the
\* code or in the fragment (code texts that whitespace normalization would
\* change are left to C13). The code does not do this.
C11_CodeProtected ==
    Done => \A k \in PreElements :
               WhitespaceStable(htmlDoc[k].code) => Contains(md, FencedCode(htmlDoc[k]))

\* C12: the output of HTMLToMarkdown holds no run of three or more newlines
\* and no space or tab right before a newline, and neither starts nor ends
\* with white space.
C12_WhitespaceNormalized ==
    Done => /\ ~HasNewlineRun(md)
            /\ ~HasBlankBeforeNewline(md)
            /\ md # <<>> => ~IsSpace(md[1]) /\ ~IsSpace(md[Len(md)])

\* The fragment starts with white space and holds a blank before a newline and
\* a run of three newlines, and an output that is not empty has been returned.
C12_Witness ==
    /\ Done /\ md # <<>> /\ htmlStr # <<>>
    /\ IsSpace(htmlStr[1]) /\ HasBlankBeforeNewline(htmlStr) /\ HasNewlineRun(htmlStr)

\* C13 as stated: a code text without markup stands in its fenced block in
\* the output exactly as it is (trimmed), blank lines and blanks at the end of
\* its lines included. The code does not do this.
C13_CodeWhitespaceKept ==
    Done => \A k \in PreElements :
               NoMarkup(htmlDoc[k].code) => Contains(md, FencedCode(htmlDoc[k]))

\* The image of element e with its alternative text, none if it has none.
ImageWithAlt(e) ==
    <<"!", "[">> \o (IF e.alt = <<>> THEN <<>> ELSE e.alt[1]) \o <<"]", "(">> \o e.src \o <<")">>

\* C14 as stated: every <img> tag becomes ![A](S) for its src S and its alt A,
\* ![](S) if it has no alt. The code does not do this.
C14_ImageAltKept ==
    Done => \A k \in ImgElements : Contains(md, ImageWithAlt(htmlDoc[k]))

\* -------------------------------------------------------------- FetchThread

maxThreadDepth == 50

\* strings.EqualFold, on ASCII
EqualFold(a, b) == Len(a) = Len(b) /\ \A k \in 1..Len(a) : Lower(a[k]) = Lower(b[k])

\* Bug variant of reverse: the slice is left as it is.
reverseNot(tweets) == tweets

\* reverse, by what it leaves in the slice
reverse(tweets) == [k \in 1..Len(tweets) |-> tweets[Len(tweets) + 1 - k]]

\* Bug variant of loopContinues: one iteration more.
loopContinuesOnceMore(iter) == iter <= maxThreadDepth

\* The condition of the loop: i < maxThreadDepth
loopContinues(iter) == iter < maxThreadDepth

\* Bug variant of noTweetYet: every failed fetch is taken for the first.
noTweetYetAlways(fetchedChain) == TRUE

\* len(chain) == 0
noTweetYet(fetchedChain) == Len(fetchedChain) = 0

\* tweet.ReplyingToStatus == ""
noParent(tweet) == tweet.ReplyingToStatus = <<>>

\* tweet.ReplyingTo != "" && tweet.Author != nil &&
\* !strings.EqualFold(tweet.ReplyingTo, tweet.Author.ScreenName)
otherAuthor(tweet) ==
    /\ tweet.ReplyingTo # <<>>
    /\ tweet.Author # <<>>
    /\ ~EqualFold(tweet.ReplyingTo, tweet.Author[1].ScreenName)

\* ---------------------------------------------------- inputs of FetchThread

\* The number of tweet ids the API knows.
MaxTweets == 2

\* The id of the n-th tweet.
TweetID(n) == Itoa(n)

IDsTried == {TweetID(n) : n \in 1..MaxTweets}

\* A tweet as FetchTweet returns it. A pointer is a sequence of no element
\* (nil) or of one.
Tweet(tid, author, replyingTo, replyingToStatus) ==
    [ID |-> tid, Author |-> author, ReplyingTo |-> replyingTo,
     ReplyingToStatus |-> replyingToStatus]

\* The authors tried: none, and two people.
AuthorsTried == {<<>>, <<[ScreenName |-> <<"a", "l">>]>>, <<[ScreenName |-> <<"b", "o">>]>>}

\* The values of replying_to tried: none, and the first person in other case.
ReplyingToTried == {<<>>, <<"A", "L">>}

\* What the API answers for the id tid: an error (no tweet), or a tweet of
\* that id with any author, replying_to and replying_to_status, a status that
\* leads back to the tweet itself or to a tweet before it included.
AnswersTried(tid) ==
    {<<>>} \cup {<<Tweet(tid, author, replyingTo, replyingToStatus)>> :
                    author \in AuthorsTried, replyingTo \in ReplyingToTried,
                    replyingToStatus \in {<<>>} \cup IDsTried}

ApisTried == {answers \in [IDsTried -> UNION {AnswersTried(tid) : tid \in IDsTried}] :
                 \A tid \in IDsTried : answers[tid] \in AnswersTried(tid)}

\* FetchTweet(name, tid): the answer of the API for the id.
FetchTweet(name, tid) == api[tid]

\* ------------------------------------------------- specification: SpecThread

InitThread ==
    /\ pc = "loop"
    /\ api \in ApisTried
    /\ screenName = <<"a", "l">>
    /\ tweetID = TweetID(1)
    /\ chain = <<>>
    /\ currentScreenName = screenName
    /\ currentID = tweetID
    /\ depth = 0
    /\ fetched = <<>>
    /\ threadErr = "nil"
    /\ IdleStyles /\ IdleDraft /\ IdleLookups /\ IdleAtomic /\ IdleMedia /\ IdleFlex
    /\ IdleHtml /\ IdleFront

\* History: the call of FetchTweet made in this iteration and its outcome.
Fetch ==
    fetched' = Append(fetched, [screenName |-> currentScreenName, id |-> currentID,
                                ok |-> FetchTweet(currentScreenName, currentID) # <<>>])

ThreadFrame ==
    UNCHANGED <<api, screenName, tweetID, stylesVars, draftVars, lookupVars, atomicVars,
                mediaVars, flexVars, htmlVars, frontVars>>

\* The fetch fails and no tweet was fetched before: return nil, err
FetchFailsFirst ==
    /\ pc = "loop" /\ loopContinues(depth)
    /\ FetchTweet(currentScreenName, currentID) = <<>>
    /\ noTweetYet(chain)
    /\ Fetch
    /\ chain' = <<>>
    /\ threadErr' = "failed to fetch tweet"
    /\ pc' = "done"
    /\ UNCHANGED <<currentScreenName, currentID, depth>>
    /\ ThreadFrame

\* The fetch of a parent fails: break
FetchFailsLater ==
    /\ pc = "loop" /\ loopContinues(depth)
    /\ FetchTweet(currentScreenName, currentID) = <<>>
    /\ ~noTweetYet(chain)
    /\ Fetch
    /\ pc' = "reverse"
    /\ UNCHANGED <<chain, currentScreenName, currentID, depth, threadErr>>
    /\ ThreadFrame

\* The tweet fetched is no reply: break
NoParent ==
    /\ pc = "loop" /\ loopContinues(depth)
    /\ FetchTweet(currentScreenName, currentID) # <<>>
    /\ LET tweet == FetchTweet(currentScreenName, currentID)[1] IN
          /\ noParent(tweet)
          /\ chain' = Append(chain, tweet)
    /\ Fetch
    /\ pc' = "reverse"
    /\ UNCHANGED <<currentScreenName, currentID, depth, threadErr>>
    /\ ThreadFrame

\* The tweet fetched replies to another author: break
OtherAuthor ==
    /\ pc = "loop" /\ loopContinues(depth)
    /\ FetchTweet(currentScreenName, currentID) # <<>>
    /\ LET tweet == FetchTweet(currentScreenName, currentID)[1] IN
          /\ ~noParent(tweet)
          /\ otherAuthor(tweet)
          /\ chain' = Append(chain, tweet)
    /\ Fetch
    /\ pc' = "reverse"
    /\ UNCHANGED <<currentScreenName, currentID, depth, threadErr>>
    /\ ThreadFrame

\* The tweet fetched is followed to its parent: the next iteration, i++
FollowParent ==
    /\ pc = "loop" /\ loopContinues(depth)
    /\ FetchTweet(currentScreenName, currentID) # <<>>
    /\ LET tweet == FetchTweet(currentScreenName, currentID)[1] IN
          /\ ~noParent(tweet)
          /\ ~otherAuthor(tweet)
          /\ chain' = Append(chain, tweet)
          /\ currentID' = tweet.ReplyingToStatus
          /\ currentScreenName' = IF tweet.Author # <<>> THEN tweet.Author[1].ScreenName
                                  ELSE currentScreenName
    /\ Fetch
    /\ depth' = depth + 1
    /\ pc' = "loop"
    /\ UNCHANGED threadErr
    /\ ThreadFrame

\* The loop ends by its condition.
DepthReached ==
    /\ pc = "loop" /\ ~loopContinues(depth)
    /\ pc' = "reverse"
    /\ UNCHANGED <<chain, currentScreenName, currentID, depth, fetched, threadErr>>
    /\ ThreadFrame

\* reverse(chain); return chain, nil
ReturnChain ==
    /\ pc = "reverse"
    /\ chain' = reverse(chain)
    /\ threadErr' = "nil"
    /\ pc' = "done"
    /\ UNCHANGED <<currentScreenName, currentID, depth, fetched>>
    /\ ThreadFrame

NextThread ==
    \/ FetchFailsFirst \/ FetchFailsLater \/ NoParent \/ OtherAuthor \/ FollowParent
    \/ DepthReached \/ ReturnChain

SpecThread == InitThread /\ [][NextThread]_vars

\* FetchThread runs on: it is one sequential function and no step of it waits.
SpecThreadLive == SpecThread /\ WF_vars(NextThread)

\* --------------------------------------------------- properties: FetchThread

\* C15: FetchThread ends, and then it has made 50 calls of FetchTweet at most
\* and returns 50 tweets at most, whatever the reply graph is, one that leads
\* back to a tweet already fetched included.
C15_TerminatesWithinDepth ==
    <>[](Done /\ Len(fetched) <= maxThreadDepth /\ Len(chain) <= maxThreadDepth)

\* FetchThread has returned after 50 fetches on a graph that leads back to the
\* tweet asked for.
C15_Witness == Done /\ Len(fetched) = maxThreadDepth /\ Len(chain) = maxThreadDepth

\* The author of a tweet as a list of no or one screen name, and whether two
\* tweets have the same one.
SameAuthor(a, b) ==
    \/ a.Author = <<>> /\ b.Author = <<>>
    \/ /\ a.Author # <<>> /\ b.Author # <<>>
       /\ EqualFold(a.Author[1].ScreenName, b.Author[1].ScreenName)

\* C16 as stated: every tweet returned has the author of the tweet asked for,
\* which is the last one of the chain. The code does not do this.
C16_OneAuthor ==
    Done => \A k \in 1..Len(chain) : SameAuthor(chain[k], chain[Len(chain)])

\* C17: the tweet asked for is the last element of the chain returned, and
\* each element before is the tweet that the replying_to_status of the next
\* names.
C17_OldestFirst ==
    (Done /\ chain # <<>>) =>
        /\ chain[Len(chain)].ID = tweetID
        /\ \A k \in 1..(Len(chain) - 1) : chain[k].ID = chain[k + 1].ReplyingToStatus

\* A chain of two different tweets has been returned.
C17_Witness == Done /\ Len(chain) = 2 /\ chain[1].ID # chain[2].ID

\* The tweets of the fetches that succeeded, in the order of the fetches.
RECURSIVE TweetsFetched(_)
TweetsFetched(k) ==
    IF k = 0 THEN <<>>
    ELSE IF fetched[k].ok THEN Append(TweetsFetched(k - 1), api[fetched[k].id][1])
    ELSE TweetsFetched(k - 1)

\* C18: FetchThread returns an error exactly when the fetch of the tweet asked
\* for fails, and no tweet then; when a later fetch fails it returns no error
\* and the tweets fetched before, the last fetched first.
C18_ErrorOnlyForFirstFetch ==
    Done => /\ threadErr # "nil" <=> ~fetched[1].ok
            /\ threadErr # "nil" => chain = <<>>
            /\ threadErr = "nil" =>
                  LET got == TweetsFetched(Len(fetched)) IN
                  /\ Len(chain) = Len(got)
                  /\ \A k \in 1..Len(got) : chain[k] = got[Len(got) + 1 - k]

\* The fetch of a parent has failed and FetchThread has returned.
C18_Witness == Done /\ Len(fetched) > 1 /\ ~fetched[Len(fetched)].ok

\* ---------------------------------------------------- specification: SpecSort

\* The length of the shortest list of ranges that has more events than sort.Slice
\* sorts by insertion.
LongestTried == maxInsertion \div 2 + 1

\* A range of one code point.
RangeAt(offset, style) == [Offset |-> offset, Length |-> 1, Style |-> style]

\* The lists tried, of 1 to LongestTried ranges: range k lies at offset k - 1,
\* or at the offset of range k - 1 when k is in shared; the styles alternate.
SortListsTried ==
    UNION {{[k \in 1..m |-> RangeAt(IF k \in shared THEN k - 2 ELSE k - 1,
                                    IF k % 2 = 1 THEN pair[1] ELSE pair[2])] :
            shared \in SUBSET (2..m), pair \in {<<"Bold", "Code">>, <<"Code", "Bold">>}} :
           m \in 1..LongestTried}

InitSort ==
    /\ pc = "call"
    /\ text = TextOfLen(LongestTried)
    /\ styles \in SortListsTried
    /\ result = <<>>
    /\ IdleDraft /\ IdleLookups /\ IdleAtomic /\ IdleMedia /\ IdleFlex /\ IdleRest

SpecSort == InitSort /\ [][NextStyles]_vars

\* C19 as stated: the markers of two events at one position and of one class
\* are written in the order of their ranges in the list, for lists of every
\* length. The code does not do this for a list of more than six ranges.
C19_StableOrder ==
    Done => \A i, j \in MarkerWrites(result) :
                (/\ i < j
                 /\ result[i].ev.pos = result[j].ev.pos
                 /\ result[i].ev.start = result[j].ev.start)
                => result[i].ev.src < result[j].ev.src

\* ------------------------------------------------------------ writeFrontmatter

\* strings.ContainsAny(s, ":#{}[]|>&*!,?\\\"'\n")
yamlSpecial == {":", "#", "{", "}", "[", "]", "|", ">", "&", "*", "!", ",", "?", "\\", "\"", "'", "\n"}

ContainsAny(str, chars) == \E k \in 1..Len(str) : str[k] \in chars

yamlEscape(str) ==
    IF str = <<>> THEN <<"\"", "\"">>
    ELSE IF ContainsAny(str, yamlSpecial)
    THEN LET escaped == ReplaceAll(ReplaceAll(str, <<"\\">>, <<"\\", "\\">>), <<"\"">>, <<"\\", "\"">>)
         IN <<"\"">> \o escaped \o <<"\"">>
    ELSE str

\* fmt.Sprintf("%s: %s\n", f.key, value)
fieldLine(key, value) == key \o <<":", " ">> \o value \o <<"\n">>

\* A frontmatterField: the dynamic type of the value and the value.
frontmatterField(key, type, value) == [key |-> key, type |-> type, value |-> value]

\* A write to the builder. The field at is history: the index of the field
\* the write is made for, 0 for a delimiter.
frontWrite(str, at) == [kind |-> "line", str |-> str, at |-> at]

\* ------------------------------------------------- specification: SpecFront

\* The longest list of fields.
MaxFields == 2

StringsTried == {<<>>, <<"e", "n">>, <<"a", ":", " ", "b">>, <<"s", "a", "y", " ", "\"", "h", "i", "\"">>}
IntsTried == {0, 7, 12}

FieldsTried ==
    {frontmatterField(<<"l", "a", "n", "g">>, "string", v) : v \in StringsTried}
    \cup {frontmatterField(<<"l", "i", "k", "e", "s">>, "int", v) : v \in IntsTried}
    \cup {frontmatterField(<<"c", "r", "e", "a", "t", "e", "d">>, "int64", v) : v \in IntsTried}

InitFront ==
    /\ pc = "open"
    /\ fields \in UNION {[1..k -> FieldsTried] : k \in 0..MaxFields}
    /\ sb = <<>>
    /\ fieldIdx = 0
    /\ IdleStyles /\ IdleDraft /\ IdleLookups /\ IdleAtomic /\ IdleMedia /\ IdleFlex
    /\ IdleHtml /\ IdleThread

FrontFrame ==
    UNCHANGED <<fields, stylesVars, draftVars, lookupVars, atomicVars, mediaVars,
                flexVars, htmlVars, threadVars>>

\* sb.WriteString("---\n")
WriteOpen ==
    /\ pc = "open"
    /\ sb' = Append(sb, frontWrite(<<"-", "-", "-", "\n">>, 0))
    /\ pc' = "range"
    /\ UNCHANGED fieldIdx
    /\ FrontFrame

\* The field the loop is at, fieldIdx counting the fields done.
InRange(type) ==
    /\ pc = "range"
    /\ fieldIdx < Len(fields)
    /\ fields[fieldIdx + 1].type = type

NextField ==
    /\ fieldIdx' = fieldIdx + 1
    /\ UNCHANGED pc
    /\ FrontFrame

\* case string, v != ""
WriteString ==
    /\ InRange("string")
    /\ fields[fieldIdx + 1].value # <<>>
    /\ sb' = Append(sb, frontWrite(fieldLine(fields[fieldIdx + 1].key,
                                             yamlEscape(fields[fieldIdx + 1].value)),
                                   fieldIdx + 1))
    /\ NextField

\* case string, v == ""
SkipEmptyString ==
    /\ InRange("string")
    /\ fields[fieldIdx + 1].value = <<>>
    /\ UNCHANGED sb
    /\ NextField

\* case int
WriteInt ==
    /\ InRange("int")
    /\ sb' = Append(sb, frontWrite(fieldLine(fields[fieldIdx + 1].key,
                                             Itoa(fields[fieldIdx + 1].value)),
                                   fieldIdx + 1))
    /\ NextField

\* case int64
WriteInt64 ==
    /\ InRange("int64")
    /\ sb' = Append(sb, frontWrite(fieldLine(fields[fieldIdx + 1].key,
                                             Itoa(fields[fieldIdx + 1].value)),
                                   fieldIdx + 1))
    /\ NextField

\* sb.WriteString("---\n\n")
WriteClose ==
    /\ pc = "range"
    /\ fieldIdx = Len(fields)
    /\ sb' = Append(sb, frontWrite(<<"-", "-", "-", "\n", "\n">>, 0))
    /\ pc' = "done"
    /\ UNCHANGED fieldIdx
    /\ FrontFrame

NextFront ==
    \/ WriteOpen
    \/ WriteString
    \/ SkipEmptyString
    \/ WriteInt
    \/ WriteInt64
    \/ WriteClose

SpecFront == InitFront /\ [][NextFront]_vars

\* ------------------------------------------------ properties: writeFrontmatter

\* The value of a field is empty: the empty string or the integer 0.
EmptyValue(fld) ==
    IF fld.type = "string" THEN fld.value = <<>> ELSE fld.value = 0

\* The writes made for field k.
LinesOf(k) == {i \in 1..Len(sb) : sb[i].at = k}

\* C20 as stated: between the two delimiters, a field whose value is the empty
\* string or the integer 0 has no line, every other field has one line that
\* starts with its key, and the lines are in the order of the fields. The code
\* does not do this for the integer 0.
C20_OnlyNonEmptyValues ==
    Done =>
        /\ sb[1].str = <<"-", "-", "-", "\n">> /\ sb[Len(sb)].str = <<"-", "-", "-", "\n", "\n">>
        /\ \A k \in 1..Len(fields) :
              IF EmptyValue(fields[k]) THEN LinesOf(k) = {}
              ELSE /\ Cardinality(LinesOf(k)) = 1
                   /\ \A i \in LinesOf(k) :
                         /\ 1 < i /\ i < Len(sb)
                         /\ SubSeq(sb[i].str, 1, Len(fields[k].key) + 2)
                               = fields[k].key \o <<":", " ">>
        /\ \A i, j \in 2..(Len(sb) - 1) : i < j => sb[i].at < sb[j].at

====
